---- MODULE Spec2Model ----
(***************************************************************************)
(* Requirement extraction and gap filling, as implemented by the Python    *)
(* sources of the repository:                                              *)
(*   - RAGFiller / MockRetriever / MockGenerator  (tests/SCRUM-82)         *)
(*   - extract_structured_requirements            (tests/SCRUM-65)         *)
(*   - extract_requirements                       (tests/SCRUM-92)         *)
(*   - RequirementExtractor.generate_document     (tests/SCRUM-52)         *)
(*   - is_pdf / ingest_kyc / IngestionStore       (generated_code/17457232)*)
(*   - CollaborationSystem                        (tests/test_scrum-94)    *)
(*   - DocumentService                            (tests/SCRUM-63)         *)
(*   - MockAutoScalingManager                     (tests/test_scrum-104)   *)
(*   - write_audit_log / get_audit_logs / clear   (generated_code/17457183)*)
(* Each subsystem has its own variables and its own specification; the     *)
(* variables of the other subsystems stay at their initial value.          *)
(***************************************************************************)
EXTENDS Integers, Sequences, FiniteSets, TLC

VARIABLES
    \* ---- gap filling (RAGFiller) ----
    retriever,      \* the injected retriever: query -> list of context snippets
    generator,      \* the injected generator: field -> generated value
    retrieverUp,    \* FALSE while the retriever's transport is failing
    requirement,    \* the requirement dict the caller holds and passes in
    origin,         \* how the caller obtained `requirement`
    lastField,      \* missing_field of the last fill_missing call
    result,         \* what the last fill_missing call returned or raised
    retrieveCalls,  \* retriever.retrieve invocations made by the last call
    generateCalls,  \* generator.generate invocations made by the last call
    \* ---- extraction (the three extractors) ----
    call,           \* the last extractor call: function and arguments
    outcome,        \* what that call returned or raised
    outputDocs,     \* the output documents written so far (paths)
    \* ---- ingestion API ----
    store,          \* ingestion_store._store: ingestion_id -> record
    upload,         \* the UploadFile of the last ingest request
    response,       \* the HTTP response to the last request
    \* ---- collaboration (CollaborationSystem) ----
    requirements,   \* system.requirements: req_id -> Requirement
    granted,        \* history: req_id -> usernames that created it or were
                    \* added to it by a collaborator
    collabCall,     \* the last CollaborationSystem call and what it did
    \* ---- document versioning (DocumentService) ----
    documents,      \* service.documents: doc_id -> Document
    collaborators,  \* service.collaborators: doc_id -> list of User
    docCall,        \* the last DocumentService call and what it did
    \* ---- auto scaling (MockAutoScalingManager) ----
    enabled,        \* manager.enabled
    instances,      \* manager.instances
    last_traffic,   \* manager.last_traffic
    scaleCall,      \* the last manager call
    \* ---- audit log (myapp/audit.py) ----
    auditLogs,      \* _AUDIT_LOGS
    lockHolder,     \* the thread inside `with _AUDIT_LOGS_LOCK`, if any
    pc,             \* thread -> where it is in its current call
    logEntry,       \* thread -> the log_entry its write_audit_log built
    loaded,         \* thread -> the list contents its append has read
    returned,       \* thread -> the list its last get_audit_logs returned
    returnedAt,     \* history: thread -> contents of that list on return
    committed,      \* history: entries appended since the last clear
    nextEntry,      \* history: how many log entries have been built
    \* task notifications (tests/SCRUM-86_tests.py)
    sent_emails,    \* MockEmailService.sent_emails
    notifyCall,     \* the last call: its arguments and what it raised
    \* CloudWatch monitor (generated_code/1745718383689.python.py 93-141)
    alerts,         \* the messages handed to send_alert, in order
    auditWrites,    \* the write_audit_log calls of the monitor, in order
    auditMode,      \* write_audit_log: "ok", "raises" or "absent" (None)
    monitorCall,    \* the last process_metric_value call
    \* stateless validators and classifiers
    fnCall,         \* the last call: function and arguments
    fnResult,       \* what it returned or raised
    acceptedIds     \* history: ids of the records accepted so far

fillVars == << retriever, generator, retrieverUp, requirement, origin,
               lastField, result, retrieveCalls, generateCalls >>

extractVars == << call, outcome, outputDocs >>

ingestVars == << store, upload, response >>

collabVars == << requirements, granted, collabCall >>

docVars == << documents, collaborators, docCall >>

scaleVars == << enabled, instances, last_traffic, scaleCall >>

auditVars == << auditLogs, lockHolder, pc, logEntry, loaded, returned,
                returnedAt, committed, nextEntry >>

notifyVars == << sent_emails, notifyCall >>

monitorVars == << alerts, auditWrites, auditMode, monitorCall >>

fnVars == << fnCall, fnResult, acceptedIds >>

vars == << retriever, generator, retrieverUp, requirement, origin,
           lastField, result, retrieveCalls, generateCalls,
           call, outcome, outputDocs, store, upload, response,
           requirements, granted, collabCall,
           documents, collaborators, docCall,
           enabled, instances, last_traffic, scaleCall,
           auditLogs, lockHolder, pc, logEntry, loaded, returned,
           returnedAt, committed, nextEntry,
           sent_emails, notifyCall,
           alerts, auditWrites, auditMode, monitorCall,
           fnCall, fnResult, acceptedIds >>

\* what the actions of one subsystem leave alone
pipelineVars == << fillVars, extractVars, ingestVars >>
serviceVars == << collabVars, docVars, scaleVars, auditVars >>
notFillVars == << extractVars, ingestVars, collabVars, docVars, scaleVars,
                  auditVars, notifyVars, monitorVars, fnVars >>
notExtractVars == << fillVars, ingestVars, collabVars, docVars, scaleVars,
                     auditVars, notifyVars, monitorVars, fnVars >>
notIngestVars == << fillVars, extractVars, collabVars, docVars, scaleVars,
                    auditVars, notifyVars, monitorVars, fnVars >>
notCollabVars == << pipelineVars, docVars, scaleVars, auditVars,
                    notifyVars, monitorVars, fnVars >>
notDocVars == << pipelineVars, collabVars, scaleVars, auditVars,
                 notifyVars, monitorVars, fnVars >>
notScaleVars == << pipelineVars, collabVars, docVars, auditVars,
                   notifyVars, monitorVars, fnVars >>
notAuditVars == << pipelineVars, collabVars, docVars, scaleVars,
                   notifyVars, monitorVars, fnVars >>
notNotifyVars == << pipelineVars, serviceVars, monitorVars, fnVars >>
notMonitorVars == << pipelineVars, serviceVars, notifyVars, fnVars >>
notFnVars == << pipelineVars, serviceVars, notifyVars, monitorVars >>

----------------------------------------------------------------------------
(* Python values.  None is the marker the sources use for a missing field  *)
(* ({"maximum user limit": None}); "" and 0 are concrete values.           *)

None == [tag |-> "None"]
Str(s) == [tag |-> "str", s |-> s]
IntV(n) == [tag |-> "int", n |-> n]

\* dict() / {} : the empty dict
EmptyDict == [k \in {} |-> None]

\* d[k] = v on a dict (adds the key when absent)
DictSet(d, k, v) == [x \in (DOMAIN d) \cup {k} |-> IF x = k THEN v ELSE d[x]]

\* d.get(k): None when the key is absent
DictGet(d, k) == IF k \in DOMAIN d THEN d[k] ELSE None

----------------------------------------------------------------------------
(* Gap filling: tests/SCRUM-82_tests.py                                    *)

FieldKeys == {"maximum user limit", "system response time", "strange field"}

\* f"What is the {missing_field}?"
Query(missing_field) == << "What is the ", missing_field, "?" >>

Queries == {Query(f) : f \in FieldKeys}

SnippetLimit == "The maximum user limit is 1000."
SnippetTime == "System response time must be less than 2 seconds."

\* the lists a retriever other than the mock may answer with
Contexts == {<< >>, << SnippetLimit >>}

\* the values a generator other than the mock may produce
GenValues == {Str("1000"), Str("N/A")}

\* the values a field may hold when the caller builds a requirement
FieldValues == {None, Str(""), IntV(0), Str("500")}

\* MockRetriever.retrieve
MockRetriever_retrieve(query) ==
    IF query = Query("maximum user limit") THEN << SnippetLimit >>
    ELSE IF query = Query("system response time") THEN << SnippetTime >>
    ELSE << >>

\* MockGenerator.generate
MockGenerator_generate(context, missing_field) ==
    IF missing_field = "maximum user limit" THEN Str("1000")
    ELSE IF missing_field = "system response time" THEN Str("less than 2 seconds")
    ELSE Str("N/A")

\* the retriever and generator objects of the rag_filler fixture
MockRetriever == [q \in Queries |-> MockRetriever_retrieve(q)]
MockGenerator == [f \in FieldKeys |-> MockGenerator_generate(<< >>, f)]

\* the retrievers and generators a RAGFiller may be constructed with
Retrievers == {MockRetriever} \cup [Queries -> Contexts]
Generators == {MockGenerator} \cup [FieldKeys -> GenValues]

\* self.retriever.retrieve(query): a list, or the transport's exception
Retrieve(query) ==
    IF retrieverUp
    THEN [kind |-> "ok", context |-> retriever[query]]
    ELSE [kind |-> "raise", context |-> << >>]

\* self.generator.generate(context, missing_field)
Generate(context, missing_field) == generator[missing_field]

NoCall == [kind |-> "nocall", req |-> EmptyDict, exc |-> "", retrieved |-> 0, generated |-> 0]

\* a bug: a field that already holds a value is regenerated as "N/A"
fill_missing_regenerate(req, missing_field) ==
    LET r == Retrieve(Query(missing_field)) IN
    IF r.kind = "raise"
    THEN [kind |-> "raised", req |-> EmptyDict, exc |-> "ConnectionError",
          retrieved |-> 1, generated |-> 0]
    ELSE IF r.context = << >>
    THEN [kind |-> "none", req |-> EmptyDict, exc |-> "", retrieved |-> 1, generated |-> 0]
    ELSE [kind |-> "dict",
          req |-> DictSet(req, missing_field,
                          IF DictGet(req, missing_field) = None
                          THEN Generate(r.context, missing_field) ELSE Str("N/A")),
          exc |-> "", retrieved |-> 1, generated |-> 1]

\* a bug: the generator is asked even when nothing was retrieved
fill_missing_always_generates(req, missing_field) ==
    LET r == Retrieve(Query(missing_field)) IN
    IF r.kind = "raise"
    THEN [kind |-> "raised", req |-> EmptyDict, exc |-> "ConnectionError",
          retrieved |-> 1, generated |-> 0]
    ELSE [kind |-> "dict",
          req |-> DictSet(req, missing_field, Generate(r.context, missing_field)),
          exc |-> "", retrieved |-> 1, generated |-> 1]

\* RAGFiller.fill_missing: the value returned (None or a new dict) or the
\* exception that leaves the call, with the collaborator calls it made.
\* There is no try/except and no loop: an exception of retrieve propagates.
fill_missing(req, missing_field) ==
    LET r == Retrieve(Query(missing_field)) IN
    IF r.kind = "raise"
    THEN [kind |-> "raised", req |-> EmptyDict, exc |-> "ConnectionError",
          retrieved |-> 1, generated |-> 0]
    ELSE IF r.context = << >>
    THEN [kind |-> "none", req |-> EmptyDict, exc |-> "", retrieved |-> 1, generated |-> 0]
    ELSE [kind |-> "dict",
          req |-> DictSet(req, missing_field, Generate(r.context, missing_field)),
          exc |-> "", retrieved |-> 1, generated |-> 1]

\* a fault: the field is written into the caller's dict, not into a copy
fill_missing_argument_in_place(req, missing_field) ==
    LET out == fill_missing(req, missing_field)
    IN  IF out.kind = "dict" THEN out.req ELSE req

\* what the dict passed as `requirement` holds when the call is over:
\* filled_req = requirement.copy() takes the one write of the method, so
\* the argument is as it was on every path
fill_missing_argument(req, missing_field) == req

\* the requirement dicts a caller may build over the field keys
Requirements ==
    UNION {[S -> FieldValues] : S \in SUBSET FieldKeys}

FillInit ==
    /\ retriever \in Retrievers
    /\ generator \in Generators
    /\ retrieverUp = TRUE
    /\ requirement \in Requirements
    /\ origin = [from |-> "caller", field |-> ""]
    /\ lastField = ""
    /\ result = NoCall
    /\ retrieveCalls = 0
    /\ generateCalls = 0

\* filled = rag_filler.fill_missing(requirement, missing_field)
FillMissing(f) ==
    LET out == fill_missing(requirement, f) IN
    /\ result' = out
    /\ lastField' = f
    /\ retrieveCalls' = out.retrieved
    /\ generateCalls' = out.generated
    /\ requirement' = fill_missing_argument(requirement, f)
    /\ UNCHANGED << retriever, generator, retrieverUp, origin >>
    /\ UNCHANGED notFillVars

\* the caller passes the returned dict to the next call
\* (test_fill_multiple_missing_fields: fill_missing(filled, ...))
Chain ==
    /\ result.kind = "dict"
    /\ requirement' = result.req
    /\ origin' = [from |-> "fill", field |-> lastField]
    /\ result' = NoCall
    /\ lastField' = ""
    /\ retrieveCalls' = 0
    /\ generateCalls' = 0
    /\ UNCHANGED << retriever, generator, retrieverUp >>
    /\ UNCHANGED notFillVars

\* the retriever's transport starts failing
TransportDown ==
    /\ retrieverUp
    /\ retrieverUp' = FALSE
    /\ UNCHANGED << retriever, generator, requirement, origin, lastField, result,
                    retrieveCalls, generateCalls >>
    /\ UNCHANGED notFillVars

\* the retriever's transport recovers
TransportUp ==
    /\ ~retrieverUp
    /\ retrieverUp' = TRUE
    /\ UNCHANGED << retriever, generator, requirement, origin, lastField, result,
                    retrieveCalls, generateCalls >>
    /\ UNCHANGED notFillVars

FillNext ==
    \/ \E f \in FieldKeys : FillMissing(f)
    \/ Chain
    \/ TransportDown
    \/ TransportUp

----------------------------------------------------------------------------
(* Extraction: tests/SCRUM-65_tests.py, tests/SCRUM-92_tests.py,           *)
(* tests/SCRUM-52_tests.py                                                 *)

JsonGraph == "{\"nodes\":[{\"id\":1,\"text\":\"Requirement 1\"}]}"

\* the payloads an input may carry (the contents the tests write)
Payloads == {"", "corrupt", "This is not JSON", JsonGraph, "Dummy content"}

\* the input_type / input_format strings a caller may pass
FormatNames == {"pdf", "word", "docx", "email", "graph", "xlsx", "txt"}

\* the extensions an input path may end with, as written
Extensions == {".pdf", ".PDF", ".xlsx", ".xls", ".png", ".jpg", ".jpeg",
               ".docx", ".txt", ""}

\* the paths generate_document may be asked to write
OutputPaths == {"out_a.docx", "out_b.docx"}

\* str.lower() on an extension
Lower(ext) ==
    IF ext = ".PDF" THEN ".pdf"
    ELSE IF ext = ".JSON" THEN ".json"
    ELSE ext

\* os.path.getsize(path) of a file holding `content`
getsize(content) == Len(content)

\* an input file: whether the path exists, the extension of its name, its content
Files ==
    {[exists |-> TRUE, ext |-> e, content |-> c] : e \in Extensions, c \in Payloads}
    \cup {[exists |-> FALSE, ext |-> e, content |-> ""] : e \in Extensions}

NoFile == [exists |-> FALSE, ext |-> "", content |-> ""]

\* a raise statement leaving the extractor
Raise(exc, msg) ==
    [kind |-> "raise", exc |-> exc, msg |-> msg, requirements |-> << >>,
     source |-> None, wrote |-> FALSE]

\* a return value: the requirement records, the batch-level 'source' entry
\* (None when the value returned has none) and whether a document was written
Return(records, source, wrote) ==
    [kind |-> "ok", exc |-> "", msg |-> "", requirements |-> records,
     source |-> source, wrote |-> wrote]

NoOutcome ==
    [kind |-> "nocall", exc |-> "", msg |-> "", requirements |-> << >>,
     source |-> None, wrote |-> FALSE]

NoExtractCall == [fn |-> "", file |-> NoFile, data |-> "", format |-> "", output |-> ""]

\* mock_extract_structured_requirements(input_path, input_type)
mock_extract_structured_requirements(file, input_type) ==
    IF ~file.exists
    THEN Raise("FileNotFoundError", "Input file not found")
    ELSE IF input_type \notin {"pdf", "word", "email", "graph"}
    THEN Raise("ValueError", "Unsupported input type")
    ELSE IF getsize(file.content) = 0
    THEN Raise("ValueError", "Empty input file")
    ELSE Return(<< [k \in {"id", "description"} |->
                       IF k = "id" THEN Str("REQ-1")
                       ELSE Str("The system shall extract requirements.")] >>,
                Str(input_type), FALSE)

\* a bug: the emptiness check is missing
extract_requirements_no_empty_check(input_data, input_format) ==
    IF input_format \notin {"pdf", "docx", "email", "graph"}
    THEN Raise("ValueError", "Unsupported input format")
    ELSE IF input_data = "corrupt"
    THEN Raise("ValueError", "Corrupt input data")
    ELSE Return(<< [k \in {"id", "requirement"} |->
                       IF k = "id" THEN IntV(1) ELSE Str("The system shall...")] >>,
                None, FALSE)

\* a bug: the dummy list is returned empty
extract_requirements_empty_list(input_data, input_format) ==
    IF input_data = ""
    THEN Raise("ValueError", "Input data is empty")
    ELSE IF input_format \notin {"pdf", "docx", "email", "graph"}
    THEN Raise("ValueError", "Unsupported input format")
    ELSE IF input_data = "corrupt"
    THEN Raise("ValueError", "Corrupt input data")
    ELSE Return(<< >>, None, FALSE)

\* extract_requirements(input_data, input_format)
extract_requirements(input_data, input_format) ==
    IF input_data = ""
    THEN Raise("ValueError", "Input data is empty")
    ELSE IF input_format \notin {"pdf", "docx", "email", "graph"}
    THEN Raise("ValueError", "Unsupported input format")
    ELSE IF input_data = "corrupt"
    THEN Raise("ValueError", "Corrupt input data")
    ELSE Return(<< [k \in {"id", "requirement"} |->
                       IF k = "id" THEN IntV(1) ELSE Str("The system shall...")] >>,
                None, FALSE)

\* RequirementExtractor.generate_document(input_path, output_path)
generate_document(file, output_path) ==
    IF ~file.exists
    THEN Raise("FileNotFoundError", "Input file does not exist.")
    ELSE IF getsize(file.content) = 0
    THEN Raise("ValueError", "Input file is empty.")
    ELSE IF Lower(file.ext) \notin {".pdf", ".xlsx", ".xls", ".png", ".jpg", ".jpeg"}
    THEN Raise("ValueError", "Unsupported file format.")
    ELSE Return(<< >>, None, TRUE)

ExtractInit ==
    /\ call = NoExtractCall
    /\ outcome = NoOutcome
    /\ outputDocs = {}

\* extract_structured_requirements(file_path, input_type)
ExtractStructured(file, input_type) ==
    /\ call' = [fn |-> "extract_structured_requirements", file |-> file, data |-> "",
                format |-> input_type, output |-> ""]
    /\ outcome' = mock_extract_structured_requirements(file, input_type)
    /\ UNCHANGED outputDocs
    /\ UNCHANGED notExtractVars

\* extract_requirements(input_data, input_format)
ExtractRequirements(input_data, input_format) ==
    /\ call' = [fn |-> "extract_requirements", file |-> NoFile, data |-> input_data,
                format |-> input_format, output |-> ""]
    /\ outcome' = extract_requirements(input_data, input_format)
    /\ UNCHANGED outputDocs
    /\ UNCHANGED notExtractVars

\* extractor.generate_document(input_path, output_path)
GenerateDocument(file, output_path) ==
    LET out == generate_document(file, output_path) IN
    /\ call' = [fn |-> "generate_document", file |-> file, data |-> "",
                format |-> "", output |-> output_path]
    /\ outcome' = out
    /\ outputDocs' = IF out.wrote THEN outputDocs \cup {output_path} ELSE outputDocs
    /\ UNCHANGED notExtractVars

\* os.remove(output_path) between tests
RemoveOutput(output_path) ==
    /\ output_path \in outputDocs
    /\ outputDocs' = outputDocs \ {output_path}
    /\ UNCHANGED << call, outcome >>
    /\ UNCHANGED notExtractVars

ExtractNext ==
    \/ \E file \in Files, t \in FormatNames : ExtractStructured(file, t)
    \/ \E d \in Payloads, t \in FormatNames : ExtractRequirements(d, t)
    \/ \E file \in Files, o \in OutputPaths : GenerateDocument(file, o)
    \/ \E o \in OutputPaths : RemoveOutput(o)

----------------------------------------------------------------------------
(* Ingestion API: generated_code/1745723237434.python.py                   *)

MaxIngestions == 2

\* the ids uuid.uuid4().hex may produce
IngestionIds == 1..MaxIngestions

HTTP_201_CREATED == 201
HTTP_400_BAD_REQUEST == 400
HTTP_415_UNSUPPORTED_MEDIA_TYPE == 415

\* the file names a client may upload under
Filenames == {"kyc.pdf", "KYC.PDF", "kyc.txt", "kyc", "scan.pdf.txt"}

\* os.path.splitext(filename)[1]
splitext_ext(filename) ==
    IF filename = "kyc.pdf" THEN ".pdf"
    ELSE IF filename = "KYC.PDF" THEN ".PDF"
    ELSE IF filename \in {"kyc.txt", "scan.pdf.txt"} THEN ".txt"
    ELSE IF filename = "fin.csv" THEN ".csv"
    ELSE IF filename = "tx.json" THEN ".json"
    ELSE IF filename = "TX.JSON" THEN ".JSON"
    ELSE ""

ContentTypes == {"application/pdf", "text/plain"}

\* b"%PDF"
PdfSignature == << "%", "P", "D", "F" >>

\* the bodies a client may upload, as byte sequences
Bodies == {<< >>,
           << "%", "P", "D", "F", "-", "1" >>,
           << "%", "P", "D", "F" >>,
           << "%", "P", "D" >>,
           << " ", "%", "P", "D", "F" >>,
           << "h", "i" >>}

\* bytes.startswith(prefix)
startswith(bytes, prefix) ==
    /\ Len(bytes) >= Len(prefix)
    /\ SubSeq(bytes, 1, Len(prefix)) = prefix

\* the UploadFile objects a request may carry; `readable` is FALSE when
\* file.read() raises
Uploads ==
    {[filename |-> n, content_type |-> t, content |-> b, readable |-> r] :
        n \in Filenames, t \in ContentTypes, b \in Bodies, r \in BOOLEAN}

NoUpload == [filename |-> "", content_type |-> "", content |-> << >>, readable |-> TRUE]

\* a response: the route that answered, the status, the "error" or
\* "ingestion_id" or "risk_score" of the body (0 when absent)
Response(route, status, error, ingestion_id, risk_score) ==
    [route |-> route, status |-> status, error |-> error,
     ingestion_id |-> ingestion_id, risk_score |-> risk_score]

NoResponse == Response("", 0, "", 0, 0)

\* a bug: the extension check is forgotten
is_pdf_content_type_only(file) ==
    file.content_type = "application/pdf"

\* is_pdf(file)
is_pdf(file) ==
    LET ext == Lower(splitext_ext(file.filename)) IN
    (ext = ".pdf") /\ (file.content_type = "application/pdf")

\* IngestionStore.add, with the id uuid4 drew: the store afterwards
IngestionStore_add(id, ingestion_type, content) ==
    [i \in (DOMAIN store) \cup {id} |->
        IF i = id THEN [type |-> ingestion_type, content |-> content] ELSE store[i]]

IngestInit ==
    /\ store = [i \in {} |-> [type |-> "", content |-> << >>]]
    /\ upload = NoUpload
    /\ response = NoResponse

\* POST /api/ingest/kyc
ingest_kyc(file) ==
    /\ Cardinality(DOMAIN store) < MaxIngestions
    /\ upload' = file
    /\ IF ~is_pdf(file)
       THEN /\ response' = Response("/ingest/kyc",
                                HTTP_415_UNSUPPORTED_MEDIA_TYPE,
                                "Invalid file type. Only PDF accepted for KYC.",
                                0, 0)
            /\ UNCHANGED store
       ELSE IF ~file.readable
       THEN /\ response' = Response("/ingest/kyc", HTTP_400_BAD_REQUEST,
                                "Failed to read uploaded file.", 0, 0)
            /\ UNCHANGED store
       ELSE IF ~startswith(file.content, PdfSignature)
       THEN /\ response' = Response("/ingest/kyc",
                                HTTP_415_UNSUPPORTED_MEDIA_TYPE,
                                "Uploaded file is not a valid PDF.", 0, 0)
            /\ UNCHANGED store
       ELSE \E id \in IngestionIds \ DOMAIN store :
            /\ store' = IngestionStore_add(id, "kyc", file.content)
            /\ response' = Response("/ingest/kyc", HTTP_201_CREATED, "",
                                id, 0)
    /\ UNCHANGED notIngestVars

HTTP_404_NOT_FOUND == 404

\* the status FastAPI gives a handler that returns a dict
HTTP_200_OK == 200

\* a CSV body: whether the bytes decode, the header line and the data rows;
\* a cell is IntV(n) when float() parses it to n, a Str otherwise
CsvBody(utf8, header, rows) ==
    [utf8 |-> utf8, header |-> header, rows |-> rows]

\* b"amount\n600\n900"
CsvHigh == CsvBody(TRUE, << "amount" >>, << << IntV(600) >>, << IntV(900) >> >>)

\* b"amount\n500"
CsvAtLimit == CsvBody(TRUE, << "amount" >>, << << IntV(500) >> >>)

\* b"amount\n100\n901"
CsvJustAbove == CsvBody(TRUE, << "amount" >>, << << IntV(100) >>, << IntV(901) >> >>)

\* b"amount"
CsvHeaderOnly == CsvBody(TRUE, << "amount" >>, << >>)

\* b"name\nbob"
CsvNoAmount == CsvBody(TRUE, << "name" >>, << << Str("bob") >> >>)

\* b"amount\nn/a"
CsvNotNumeric == CsvBody(TRUE, << "amount" >>, << << Str("n/a") >> >>)

\* b"\xff\xfe"
CsvUndecodable == CsvBody(FALSE, << >>, << >>)

CsvBodies == {CsvHigh, CsvAtLimit, CsvJustAbove, CsvHeaderOnly, CsvNoAmount,
              CsvNotNumeric, CsvUndecodable}

\* a parsed JSON list
List(items) == [tag |-> "list", items |-> items]

\* a parsed JSON object
JsonObject == [tag |-> "dict"]

\* one transaction of an uploaded list
Tx == [amount |-> 10]

\* [tx] * n
TxList(n) == List([i \in 1..n |-> Tx])

\* a JSON body: whether the bytes decode, whether json.loads accepts the
\* text, and the value it gives
JsonBody(utf8, valid, value) == [utf8 |-> utf8, valid |-> valid, value |-> value]

\* the longest transaction list scored
MaxTransactions == 41

\* the column of `amount` in the header, 0 when there is none
AmountColumn(header) ==
    IF \E i \in 1..Len(header) : header[i] = "amount"
    THEN CHOOSE i \in 1..Len(header) : header[i] = "amount"
    ELSE 0

RECURSIVE SumAmounts(_, _)
\* sum(float(row["amount"]) for row in rows)
SumAmounts(rows, col) ==
    IF rows = << >> THEN 0
    ELSE Head(rows)[col].n + SumAmounts(Tail(rows), col)

\* the try block of the financials branch raises: decode() fails, a row has
\* no "amount", or float() rejects a cell
FinancialsRaise(content) ==
    \/ DOMAIN content # {"utf8", "header", "rows"}
    \/ ~content.utf8
    \/ /\ content.rows # << >>
       /\ \/ AmountColumn(content.header) = 0
          \/ \E i \in 1..Len(content.rows) :
               content.rows[i][AmountColumn(content.header)].tag # "int"

\* what a call returns or raises
FnReturn(v) == [kind |-> "return", value |-> v, exc |-> ""]

FnRaise(e) == [kind |-> "raise", value |-> None, exc |-> e]

\* len(txs) is defined for a list only
HasLen(content) == DOMAIN content = {"tag", "items"}

\* a fault: the score of a transaction list is not capped
calculate_risk_score_uncapped(ingestion) ==
    IF ingestion.type = "kyc" THEN FnReturn(10)
    ELSE IF ingestion.type = "financials"
    THEN IF FinancialsRaise(ingestion.content) THEN FnReturn(90)
         ELSE LET rows == ingestion.content.rows
                  col == AmountColumn(ingestion.content.header)
              IN  IF rows # << >> /\ SumAmounts(rows, col) > 500 * Len(rows)
                  THEN FnReturn(50) ELSE FnReturn(30)
    ELSE IF ingestion.type = "transactions"
    THEN IF ~HasLen(ingestion.content) THEN FnRaise("TypeError")
         ELSE FnReturn(20 + 2 * Len(ingestion.content.items))
    ELSE FnReturn(99)

\* calculate_risk_score(ingestion); avg_amount > 500 is compared as
\* sum(amounts) > 500 * len(amounts)
calculate_risk_score(ingestion) ==
    IF ingestion.type = "kyc" THEN FnReturn(10)
    ELSE IF ingestion.type = "financials"
    THEN IF FinancialsRaise(ingestion.content) THEN FnReturn(90)
         ELSE LET rows == ingestion.content.rows
                  col == AmountColumn(ingestion.content.header)
              IN  IF rows # << >> /\ SumAmounts(rows, col) > 500 * Len(rows)
                  THEN FnReturn(50) ELSE FnReturn(30)
    ELSE IF ingestion.type = "transactions"
    THEN IF ~HasLen(ingestion.content) THEN FnRaise("TypeError")
         ELSE LET score == 20 + 2 * Len(ingestion.content.items)
              IN  FnReturn(IF score < 100 THEN score ELSE 100)
    ELSE FnReturn(99)

\* the uploads POST /api/ingest/financials is tried with
CsvUploads ==
    {[filename |-> n, content_type |-> t, content |-> b, readable |-> r] :
        n \in {"fin.csv", "kyc.pdf"}, t \in {"text/csv", "text/plain"},
        b \in {CsvHigh, CsvUndecodable}, r \in BOOLEAN}

\* b"[]", b"{}" and b"not json"
JsonBodies == {JsonBody(TRUE, TRUE, TxList(0)), JsonBody(TRUE, TRUE, JsonObject),
               JsonBody(TRUE, FALSE, None)}

\* the uploads POST /api/ingest/transactions is tried with
JsonUploads ==
    {[filename |-> n, content_type |-> t, content |-> b, readable |-> r] :
        n \in {"tx.json", "TX.JSON", "kyc.pdf"},
        t \in {"application/json", "text/plain"},
        b \in JsonBodies, r \in BOOLEAN}

\* is_csv(file)
is_csv(file) ==
    LET ext == Lower(splitext_ext(file.filename)) IN
    (ext = ".csv") /\ (file.content_type = "text/csv")

\* is_json(file)
is_json(file) ==
    LET ext == Lower(splitext_ext(file.filename)) IN
    (ext = ".json") /\ (file.content_type = "application/json")

\* POST /api/ingest/financials; an UploadFile is never falsy, so the
\* "No file uploaded." branch is not taken
ingest_financials(file) ==
    /\ Cardinality(DOMAIN store) < MaxIngestions
    /\ upload' = file
    /\ IF ~is_csv(file)
       THEN /\ response' = Response("/ingest/financials", HTTP_415_UNSUPPORTED_MEDIA_TYPE,
                               "Invalid file type. Only CSV accepted for financials.",
                               0, 0)
            /\ UNCHANGED store
       ELSE IF ~file.readable \/ ~file.content.utf8
       THEN /\ response' = Response("/ingest/financials", HTTP_400_BAD_REQUEST,
                               "Failed to parse CSV file.", 0, 0)
            /\ UNCHANGED store
       ELSE \E id \in IngestionIds \ DOMAIN store :
            /\ store' = IngestionStore_add(id, "financials", file.content)
            /\ response' = Response("/ingest/financials", HTTP_201_CREATED, "", id, 0)
    /\ UNCHANGED notIngestVars

\* POST /api/ingest/transactions
ingest_transactions(file) ==
    /\ Cardinality(DOMAIN store) < MaxIngestions
    /\ upload' = file
    /\ IF ~is_json(file)
       THEN /\ response' = Response("/ingest/transactions", HTTP_415_UNSUPPORTED_MEDIA_TYPE,
                               "Invalid file type. Only JSON accepted for transactions.",
                               0, 0)
            /\ UNCHANGED store
       ELSE IF \/ ~file.readable
               \/ ~file.content.utf8
               \/ ~file.content.valid
               \/ file.content.value.tag # "list"
       THEN /\ response' = Response("/ingest/transactions", HTTP_400_BAD_REQUEST,
                               "Failed to parse JSON file.", 0, 0)
            /\ UNCHANGED store
       ELSE \E id \in IngestionIds \ DOMAIN store :
            /\ store' = IngestionStore_add(id, "transactions",
                                           file.content.value)
            /\ response' = Response("/ingest/transactions", HTTP_201_CREATED, "", id, 0)
    /\ UNCHANGED notIngestVars

\* a fault: a record with empty content counts as missing
Found_with_content(ingestion) ==
    /\ ingestion # None
    /\ ingestion.type = "transactions" => ingestion.content.items # << >>

\* `if not ingestion` is false: the store returned a record (a dict with
\* two keys, never falsy)
Found(ingestion) == ingestion # None

\* IngestionStore.get
IngestionStore_get(ingestion_id) ==
    IF ingestion_id \in DOMAIN store THEN store[ingestion_id] ELSE None

\* GET /api/risk/score/{ingestion_id}; the request carries no file, and
\* response.ingestion_id records the id of the path
get_risk_score(ingestion_id) ==
    /\ upload' = NoUpload
    /\ LET ingestion == IngestionStore_get(ingestion_id)
       IN  IF ~Found(ingestion)
           THEN response' = Response("/risk/score", HTTP_404_NOT_FOUND,
                                "Ingestion ID not found.", ingestion_id, 0)
           ELSE LET r == calculate_risk_score(ingestion)
                IN  IF r.kind = "raise"
                    THEN response' = Response("/risk/score", HTTP_400_BAD_REQUEST,
                                         "Could not calculate risk score.",
                                         ingestion_id, 0)
                    ELSE response' = Response("/risk/score", HTTP_200_OK, "", ingestion_id,
                                              r.value)
    /\ UNCHANGED store
    /\ UNCHANGED notIngestVars

IngestNext ==
    \/ \E file \in Uploads : ingest_kyc(file)
    \/ \E file \in CsvUploads : ingest_financials(file)
    \/ \E file \in JsonUploads : ingest_transactions(file)
    \/ \E ingestion_id \in IngestionIds : get_risk_score(ingestion_id)

----------------------------------------------------------------------------
(* Collaboration: tests/test_scrum-94.py                                   *)

\* users the collab_system fixture registers, one of each role:
\* username -> role
UserRoles ==
    [alice_admin |-> "Admin", bob_stakeholder |-> "Stakeholder",
     eve_outsider |-> "Guest"]

Usernames == DOMAIN UserRoles

\* a requirement id is f"REQ-{n}": the prefix and the number printed after it
REQ(n) == [prefix |-> "REQ-", number |-> n]

\* how many requirements the system holds at most
MaxRequirements == 2

\* how many names the collaborator lists hold at most, all lists together
MaxCollaborators == 2

ReqIds == {REQ(n) : n \in 1..MaxRequirements}

NoReqId == REQ(0)

ReqContents == {"Initial requirement content.", "Edited by Carol."}

OrphanContent == "Orphan requirement"

\* Requirement(req_id, content, collaborators)
Requirement(req_id, content, names) ==
    [req_id |-> req_id, content |-> content, collaborators |-> names]

\* x in list
InList(x, list) == \E i \in 1..Len(list) : list[i] = x

\* list.count(x)
Count(x, list) == Cardinality({i \in 1..Len(list) : list[i] = x})

RECURSIVE NamesIn(_, _)
\* the number of names on the collaborator lists of the requirements `ids`
NamesIn(reqs, ids) ==
    IF ids = {} THEN 0
    ELSE LET id == CHOOSE r \in ids : TRUE
         IN Len(reqs[id].collaborators) + NamesIn(reqs, ids \ {id})

AccessDeniedError == "AccessDeniedError"

KeyError == "KeyError"

\* what a CollaborationSystem method did: the exception it raised ("" when it
\* returned), the requirements dict afterwards, the id it worked on
CollabResult(raised, reqs, req_id) ==
    [raised |-> raised, requirements |-> reqs, req_id |-> req_id]

create_requirement(reqs, creator, content) ==
    IF UserRoles[creator] \notin {"Stakeholder", "Admin"}
    THEN CollabResult(AccessDeniedError, reqs, NoReqId)
    ELSE LET req_id == REQ(Cardinality(DOMAIN reqs) + 1)
             req == Requirement(req_id, content, << creator >>)
         IN CollabResult("", DictSet(reqs, req_id, req), req_id)

\* a bug: anybody may add a collaborator
add_collaborator_unchecked(reqs, req_id, actor, collaborator_username) ==
    IF req_id \notin DOMAIN reqs
    THEN CollabResult(KeyError, reqs, req_id)
    ELSE CollabResult("",
             [reqs EXCEPT ![req_id].collaborators =
                              Append(@, collaborator_username)],
             req_id)

add_collaborator(reqs, req_id, actor, collaborator_username) ==
    IF req_id \notin DOMAIN reqs
    THEN CollabResult(KeyError, reqs, req_id)
    ELSE IF ~InList(actor, reqs[req_id].collaborators)
    THEN CollabResult(AccessDeniedError, reqs, req_id)
    ELSE CollabResult("",
             [reqs EXCEPT ![req_id].collaborators =
                              Append(@, collaborator_username)],
             req_id)

access_requirement(reqs, req_id, user) ==
    IF req_id \notin DOMAIN reqs
    THEN CollabResult(KeyError, reqs, req_id)
    ELSE IF ~InList(user, reqs[req_id].collaborators)
    THEN CollabResult(AccessDeniedError, reqs, req_id)
    ELSE CollabResult("", reqs, req_id)

edit_requirement(reqs, req_id, user, new_content) ==
    IF req_id \notin DOMAIN reqs
    THEN CollabResult(KeyError, reqs, req_id)
    ELSE IF ~InList(user, reqs[req_id].collaborators)
    THEN CollabResult(AccessDeniedError, reqs, req_id)
    ELSE CollabResult("", [reqs EXCEPT ![req_id].content = new_content],
                      req_id)

\* the record of the last call: the method, the exception it raised, and
\* whether the id it stored under was absent from the dict before the call
CollabCall(op, res, fresh) ==
    [op |-> op, raised |-> res.raised, fresh |-> fresh]

NoCollabCall == [op |-> "", raised |-> "", fresh |-> TRUE]

\* CollaborationSystem(): no requirements yet
CollabInit ==
    /\ requirements = [r \in {} |-> Requirement(NoReqId, "", << >>)]
    /\ granted = [r \in {} |-> {}]
    /\ collabCall = NoCollabCall

CreateRequirement(creator, content) ==
    LET res == create_requirement(requirements, creator, content)
    IN /\ Cardinality(DOMAIN requirements) < MaxRequirements
       /\ requirements' = res.requirements
       /\ granted' = IF res.raised = ""
                     THEN DictSet(granted, res.req_id, {creator})
                     ELSE granted
       /\ collabCall' = CollabCall("create_requirement", res,
                                   res.req_id \notin DOMAIN requirements)
       /\ UNCHANGED notCollabVars

\* collab_system.requirements["REQ-999"] = Requirement("REQ-999", ..., []):
\* a requirement stored under a new key without create_requirement
StoreOrphan(req_id) ==
    /\ req_id \notin DOMAIN requirements
    /\ requirements' =
           DictSet(requirements, req_id,
                   Requirement(req_id, OrphanContent, << >>))
    /\ granted' = DictSet(granted, req_id, {})
    /\ collabCall' = [op |-> "store", raised |-> "", fresh |-> TRUE]
    /\ UNCHANGED notCollabVars

AddCollaborator(req_id, actor, collaborator_username) ==
    LET res == add_collaborator(requirements, req_id, actor,
                                collaborator_username)
    IN /\ NamesIn(requirements, DOMAIN requirements) < MaxCollaborators
       /\ requirements' = res.requirements
       /\ granted' = IF res.raised = "" /\ actor \in granted[req_id]
                     THEN [granted EXCEPT ![req_id] =
                                      @ \cup {collaborator_username}]
                     ELSE granted
       /\ collabCall' = CollabCall("add_collaborator", res, TRUE)
       /\ UNCHANGED notCollabVars

AccessRequirement(req_id, user) ==
    LET res == access_requirement(requirements, req_id, user)
    IN /\ requirements' = res.requirements
       /\ collabCall' = CollabCall("access_requirement", res, TRUE)
       /\ UNCHANGED << granted, notCollabVars >>

EditRequirement(req_id, user, new_content) ==
    LET res == edit_requirement(requirements, req_id, user, new_content)
    IN /\ requirements' = res.requirements
       /\ collabCall' = CollabCall("edit_requirement", res, TRUE)
       /\ UNCHANGED << granted, notCollabVars >>

CollabNext ==
    \/ \E creator \in Usernames, content \in ReqContents :
           CreateRequirement(creator, content)
    \/ \E req_id \in ReqIds : StoreOrphan(req_id)
    \/ \E req_id \in ReqIds, actor \in Usernames, name \in Usernames :
           AddCollaborator(req_id, actor, name)
    \/ \E req_id \in ReqIds, user \in Usernames : AccessRequirement(req_id, user)
    \/ \E req_id \in ReqIds, user \in Usernames, content \in ReqContents :
           EditRequirement(req_id, user, content)

----------------------------------------------------------------------------
(* Document versioning: tests/SCRUM-63_tests.py                            *)

\* the users of the `users` fixture: username -> role
DocUserRoles == [alice |-> "admin", bob |-> "editor", carol |-> "viewer"]

DocUsers == DOMAIN DocUserRoles

DocIds == {"req-1"}

DocContents == {"Start", "Change1"}

\* how many versions a document gets at most
MaxVersion == 3

\* how long a document's collaborator list grows at most
MaxDocCollaborators == 2

\* the version test_edge_case_revert_to_nonexistent_version asks for
MissingVersion == 99

VersionArgs == (1..MaxVersion) \cup {MissingVersion}

PermissionError == "PermissionError"

ValueError == "ValueError"

\* one entry of Document.history: the tuple (version, content)
HistoryEntry(version, content) == [version |-> version, content |-> content]

\* Document(doc_id, content, version=1)
Document(doc_id, content, version) ==
    [doc_id |-> doc_id, content |-> content, version |-> version,
     history |-> << HistoryEntry(version, content) >>]

\* what a DocumentService method did: the exception it raised ("" when it
\* returned), and the two dicts afterwards
DocResult(raised, docs, collabs) ==
    [raised |-> raised, documents |-> docs, collaborators |-> collabs]

create_document(docs, collabs, user, doc_id, content) ==
    IF DocUserRoles[user] \notin {"admin", "editor"}
    THEN DocResult(PermissionError, docs, collabs)
    ELSE IF doc_id \in DOMAIN docs
    THEN DocResult(ValueError, docs, collabs)
    ELSE DocResult("", DictSet(docs, doc_id, Document(doc_id, content, 1)),
                   DictSet(collabs, doc_id, << user >>))

DocumentService_add_collaborator(docs, collabs, doc_id, user) ==
    IF doc_id \notin DOMAIN collabs
    THEN DocResult(KeyError, docs, collabs)
    ELSE DocResult("", docs, [collabs EXCEPT ![doc_id] = Append(@, user)])

\* a bug: an edit that gives a new version without recording it
edit_document_keeps_history(docs, collabs, user, doc_id, new_content) ==
    IF doc_id \notin DOMAIN collabs
    THEN DocResult(KeyError, docs, collabs)
    ELSE IF ~InList(user, collabs[doc_id])
    THEN DocResult(PermissionError, docs, collabs)
    ELSE IF DocUserRoles[user] \notin {"admin", "editor"}
    THEN DocResult(PermissionError, docs, collabs)
    ELSE DocResult("",
             [docs EXCEPT ![doc_id].version = @ + 1,
                          ![doc_id].content = new_content],
             collabs)

edit_document(docs, collabs, user, doc_id, new_content) ==
    IF doc_id \notin DOMAIN collabs
    THEN DocResult(KeyError, docs, collabs)
    ELSE IF ~InList(user, collabs[doc_id])
    THEN DocResult(PermissionError, docs, collabs)
    ELSE IF DocUserRoles[user] \notin {"admin", "editor"}
    THEN DocResult(PermissionError, docs, collabs)
    ELSE LET doc == docs[doc_id]
             version == doc.version + 1
         IN DocResult("",
                [docs EXCEPT ![doc_id] =
                    [doc EXCEPT !.version = version,
                                !.content = new_content,
                                !.history =
                                    Append(@, HistoryEntry(version,
                                                           new_content))]],
                collabs)

get_document(docs, collabs, user, doc_id) ==
    IF doc_id \notin DOMAIN collabs
    THEN DocResult(KeyError, docs, collabs)
    ELSE IF ~InList(user, collabs[doc_id])
    THEN DocResult(PermissionError, docs, collabs)
    ELSE DocResult("", docs, collabs)

get_document_history(docs, collabs, user, doc_id) ==
    IF doc_id \notin DOMAIN collabs
    THEN DocResult(KeyError, docs, collabs)
    ELSE IF ~InList(user, collabs[doc_id])
    THEN DocResult(PermissionError, docs, collabs)
    ELSE DocResult("", docs, collabs)

\* the `for v, content in doc.history` loop: the first entry with v == version
FirstWithVersion(history, version) ==
    LET hits == {i \in 1..Len(history) : history[i].version = version}
    IN IF hits = {} THEN 0
       ELSE CHOOSE i \in hits : \A j \in hits : i <= j

\* a bug: revert_document without the role test
revert_document_any_role(docs, collabs, user, doc_id, version) ==
    IF doc_id \notin DOMAIN docs
    THEN DocResult(KeyError, docs, collabs)
    ELSE LET doc == docs[doc_id]
             i == FirstWithVersion(doc.history, version)
             new_version == doc.version + 1
         IN IF i = 0
            THEN DocResult(ValueError, docs, collabs)
            ELSE DocResult("",
                     [docs EXCEPT ![doc_id] =
                         [doc EXCEPT !.version = new_version,
                                     !.content = doc.history[i].content,
                                     !.history =
                                         Append(@, HistoryEntry(new_version,
                                                    doc.history[i].content))]],
                     collabs)

revert_document(docs, collabs, user, doc_id, version) ==
    IF DocUserRoles[user] # "admin"
    THEN DocResult(PermissionError, docs, collabs)
    ELSE IF doc_id \notin DOMAIN docs
    THEN DocResult(KeyError, docs, collabs)
    ELSE LET doc == docs[doc_id]
             i == FirstWithVersion(doc.history, version)
             new_version == doc.version + 1
         IN IF i = 0
            THEN DocResult(ValueError, docs, collabs)
            ELSE DocResult("",
                     [docs EXCEPT ![doc_id] =
                         [doc EXCEPT !.version = new_version,
                                     !.content = doc.history[i].content,
                                     !.history =
                                         Append(@, HistoryEntry(new_version,
                                                    doc.history[i].content))]],
                     collabs)

\* del self.documents[doc_id]; del self.collaborators[doc_id]
remove_document(docs, collabs, doc_id) ==
    IF doc_id \notin DOMAIN docs
    THEN DocResult(KeyError, docs, collabs)
    ELSE DocResult("", [d \in (DOMAIN docs) \ {doc_id} |-> docs[d]],
                   [d \in (DOMAIN collabs) \ {doc_id} |-> collabs[d]])

\* the record of the last call: the method and the exception it raised
DocCall(op, res) == [op |-> op, raised |-> res.raised]

NoDocCall == [op |-> "", raised |-> ""]

\* DocumentService(): no documents
DocInit ==
    /\ documents = [d \in {} |-> Document("", "", 1)]
    /\ collaborators = [d \in {} |-> << >>]
    /\ docCall = NoDocCall

\* the state after a method: both dicts as the method left them
DocStep(op, res) ==
    /\ documents' = res.documents
    /\ collaborators' = res.collaborators
    /\ docCall' = DocCall(op, res)
    /\ UNCHANGED notDocVars

CreateDocument(user, doc_id, content) ==
    DocStep("create_document",
            create_document(documents, collaborators, user, doc_id, content))

DocAddCollaborator(doc_id, user) ==
    /\ doc_id \in DOMAIN collaborators
       => Len(collaborators[doc_id]) < MaxDocCollaborators
    /\ DocStep("add_collaborator",
               DocumentService_add_collaborator(documents, collaborators,
                                                doc_id, user))

EditDocument(user, doc_id, new_content) ==
    /\ doc_id \in DOMAIN documents => documents[doc_id].version < MaxVersion
    /\ DocStep("edit_document",
               edit_document(documents, collaborators, user, doc_id,
                             new_content))

GetDocument(user, doc_id) ==
    DocStep("get_document",
            get_document(documents, collaborators, user, doc_id))

GetDocumentHistory(user, doc_id) ==
    DocStep("get_document_history",
            get_document_history(documents, collaborators, user, doc_id))

RevertDocument(user, doc_id, version) ==
    /\ doc_id \in DOMAIN documents => documents[doc_id].version < MaxVersion
    /\ DocStep("revert_document",
               revert_document(documents, collaborators, user, doc_id,
                               version))

RemoveDocument(doc_id) ==
    DocStep("remove_document",
            remove_document(documents, collaborators, doc_id))

DocNext ==
    \/ \E user \in DocUsers, doc_id \in DocIds, content \in DocContents :
           CreateDocument(user, doc_id, content)
    \/ \E doc_id \in DocIds, user \in DocUsers : DocAddCollaborator(doc_id, user)
    \/ \E user \in DocUsers, doc_id \in DocIds, content \in DocContents :
           EditDocument(user, doc_id, content)
    \/ \E user \in DocUsers, doc_id \in DocIds : GetDocument(user, doc_id)
    \/ \E user \in DocUsers, doc_id \in DocIds :
           GetDocumentHistory(user, doc_id)
    \/ \E user \in DocUsers, doc_id \in DocIds, version \in VersionArgs :
           RevertDocument(user, doc_id, version)
    \/ \E doc_id \in DocIds : RemoveDocument(doc_id)

----------------------------------------------------------------------------
(* Auto scaling: tests/test_scrum-104.py                                   *)

\* self.scaling_policy
scaling_policy == [p \in {"min", "max"} |-> IF p = "min" THEN 2 ELSE 10]

min(a, b) == IF a <= b THEN a ELSE b

max(a, b) == IF a >= b THEN a ELSE b

\* the user counts simulate_traffic is called with: the values the tests use
\* and the values on both sides of the two thresholds
TrafficLevels == {0, 10, 50, 99, 100, 500, 1000, 1001, 2000, 10000}

\* the manager's attributes as one value
Manager(on, count, traffic) ==
    [enabled |-> on, instances |-> count, last_traffic |-> traffic]

\* a bug: scaling that ignores the policy
simulate_traffic_unclamped(m, users) ==
    IF m.enabled /\ users > 1000
    THEN Manager(m.enabled, m.instances + 3, users)
    ELSE IF m.enabled /\ users < 100
    THEN Manager(m.enabled, m.instances - 1, users)
    ELSE Manager(m.enabled, m.instances, users)

\* a bug: a spike that adds no instance
simulate_traffic_no_scale_up(m, users) ==
    IF m.enabled /\ users > 1000
    THEN Manager(m.enabled, m.instances, users)
    ELSE IF m.enabled /\ users < 100
    THEN Manager(m.enabled, max(m.instances - 1, scaling_policy["min"]), users)
    ELSE Manager(m.enabled, m.instances, users)

\* a bug: scaling that goes on while disabled
simulate_traffic_ignores_enabled(m, users) ==
    IF users > 1000
    THEN Manager(m.enabled, min(m.instances + 3, scaling_policy["max"]), users)
    ELSE IF users < 100
    THEN Manager(m.enabled, max(m.instances - 1, scaling_policy["min"]), users)
    ELSE Manager(m.enabled, m.instances, users)

simulate_traffic(m, users) ==
    IF m.enabled /\ users > 1000
    THEN Manager(m.enabled, min(m.instances + 3, scaling_policy["max"]), users)
    ELSE IF m.enabled /\ users < 100
    THEN Manager(m.enabled, max(m.instances - 1, scaling_policy["min"]), users)
    ELSE Manager(m.enabled, m.instances, users)

\* the record of the last call: the method and its `users` argument
ScaleCall(op, users) == [op |-> op, users |-> users]

\* MockAutoScalingManager()
ScaleInit ==
    /\ enabled = FALSE
    /\ instances = 2
    /\ last_traffic = 0
    /\ scaleCall = ScaleCall("", 0)

enable_auto_scaling ==
    /\ enabled' = TRUE
    /\ scaleCall' = ScaleCall("enable_auto_scaling", 0)
    /\ UNCHANGED << instances, last_traffic, notScaleVars >>

disable_auto_scaling ==
    /\ enabled' = FALSE
    /\ scaleCall' = ScaleCall("disable_auto_scaling", 0)
    /\ UNCHANGED << instances, last_traffic, notScaleVars >>

SimulateTraffic(users) ==
    LET m == simulate_traffic(Manager(enabled, instances, last_traffic), users)
    IN /\ enabled' = m.enabled
       /\ instances' = m.instances
       /\ last_traffic' = m.last_traffic
       /\ scaleCall' = ScaleCall("simulate_traffic", users)
       /\ UNCHANGED notScaleVars

reset_traffic ==
    /\ last_traffic' = 0
    /\ instances' = scaling_policy["min"]
    /\ scaleCall' = ScaleCall("reset_traffic", 0)
    /\ UNCHANGED << enabled, notScaleVars >>

ScaleNext ==
    \/ enable_auto_scaling
    \/ disable_auto_scaling
    \/ \E users \in TrafficLevels : SimulateTraffic(users)
    \/ reset_traffic

----------------------------------------------------------------------------
(* Audit log: generated_code/1745718383689.python.py (myapp/audit.py)      *)

Threads == {"t1", "t2"}

NoThread == ""

\* how many log entries are built at most
MaxEntries == 2

\* log_entry: the dict write_audit_log builds; `n` stands for its timestamp
\* and identity, so that two writes never build the same entry
LogEntry(user, action, n) == [user |-> user, action |-> action, n |-> n]

NoEntry == LogEntry("", "", 0)

AuditUsers == {"admin", "system"}

\* a list object a caller holds: a new list with its own items, or the
\* module's _AUDIT_LOGS object itself
NewList(items) == [ref |-> "new", items |-> items]

TheAuditLogs == [ref |-> "_AUDIT_LOGS", items |-> << >>]

NoList == [ref |-> "", items |-> << >>]

\* what a caller reads from a list object it holds
Contents(held) == IF held.ref = "_AUDIT_LOGS" THEN auditLogs ELSE held.items

\* a bug: a lock that lets a second thread in
Lock_acquire_nonexclusive(holder) == TRUE

\* threading.Lock.acquire: blocks until no thread holds the lock
Lock_acquire(holder) == holder = NoThread

AuditInit ==
    /\ auditLogs = << >>
    /\ lockHolder = NoThread
    /\ pc = [t \in Threads |-> "idle"]
    /\ logEntry = [t \in Threads |-> NoEntry]
    /\ loaded = [t \in Threads |-> << >>]
    /\ returned = [t \in Threads |-> NoList]
    /\ returnedAt = [t \in Threads |-> << >>]
    /\ committed = {}
    /\ nextEntry = 0

\* write_audit_log up to the `with`: log_entry is built outside the lock
write_audit_log(t, user) ==
    /\ pc[t] = "idle"
    /\ nextEntry < MaxEntries
    /\ nextEntry' = nextEntry + 1
    /\ logEntry' = [logEntry EXCEPT ![t] =
                        LogEntry(user, "start_service", nextEntry + 1)]
    /\ pc' = [pc EXCEPT ![t] = "write_lock"]
    /\ UNCHANGED << auditLogs, lockHolder, loaded, returned, returnedAt,
                    committed, notAuditVars >>

\* get_audit_logs up to the `with`
get_audit_logs(t) ==
    /\ pc[t] = "idle"
    /\ pc' = [pc EXCEPT ![t] = "get_lock"]
    /\ UNCHANGED << auditLogs, lockHolder, logEntry, loaded, returned,
                    returnedAt, committed, nextEntry, notAuditVars >>

\* clear_audit_logs up to the `with`
clear_audit_logs(t) ==
    /\ pc[t] = "idle"
    /\ pc' = [pc EXCEPT ![t] = "clear_lock"]
    /\ UNCHANGED << auditLogs, lockHolder, logEntry, loaded, returned,
                    returnedAt, committed, nextEntry, notAuditVars >>

\* `with _AUDIT_LOGS_LOCK:` entered
Acquire(t) ==
    /\ pc[t] \in {"write_lock", "get_lock", "clear_lock"}
    /\ Lock_acquire(lockHolder)
    /\ lockHolder' = t
    /\ pc' = [pc EXCEPT ![t] = CASE pc[t] = "write_lock" -> "append_load"
                                 [] pc[t] = "get_lock" -> "copy"
                                 [] OTHER -> "clear"]
    /\ UNCHANGED << auditLogs, logEntry, loaded, returned, returnedAt,
                    committed, nextEntry, notAuditVars >>

\* _AUDIT_LOGS.append(log_entry), first half: the list is read.  The append
\* is not taken to be atomic by itself; exclusion comes from the lock.
AppendLoad(t) ==
    /\ pc[t] = "append_load"
    /\ loaded' = [loaded EXCEPT ![t] = auditLogs]
    /\ pc' = [pc EXCEPT ![t] = "append_store"]
    /\ UNCHANGED << auditLogs, lockHolder, logEntry, returned, returnedAt,
                    committed, nextEntry, notAuditVars >>

\* _AUDIT_LOGS.append(log_entry), second half: the longer list is written
AppendStore(t) ==
    /\ pc[t] = "append_store"
    /\ auditLogs' = Append(loaded[t], logEntry[t])
    /\ committed' = committed \cup {logEntry[t]}
    /\ loaded' = [loaded EXCEPT ![t] = << >>]
    /\ pc' = [pc EXCEPT ![t] = "unlock"]
    /\ UNCHANGED << lockHolder, logEntry, returned, returnedAt, nextEntry,
                    notAuditVars >>

\* a bug: get_audit_logs handing out _AUDIT_LOGS itself
list_no_copy(items) == TheAuditLogs

\* list(_AUDIT_LOGS): a new list with the same items
list(items) == NewList(items)

\* return list(_AUDIT_LOGS)
Copy(t) ==
    /\ pc[t] = "copy"
    /\ returned' = [returned EXCEPT ![t] = list(auditLogs)]
    /\ returnedAt' = [returnedAt EXCEPT ![t] = auditLogs]
    /\ pc' = [pc EXCEPT ![t] = "unlock"]
    /\ UNCHANGED << auditLogs, lockHolder, logEntry, loaded, committed,
                    nextEntry, notAuditVars >>

\* _AUDIT_LOGS.clear()
Clear(t) ==
    /\ pc[t] = "clear"
    /\ auditLogs' = << >>
    /\ committed' = {}
    /\ pc' = [pc EXCEPT ![t] = "unlock"]
    /\ UNCHANGED << lockHolder, logEntry, loaded, returned, returnedAt,
                    nextEntry, notAuditVars >>

\* the end of the `with` block: the lock is released and the call returns
Release(t) ==
    /\ pc[t] = "unlock"
    /\ lockHolder' = NoThread
    /\ pc' = [pc EXCEPT ![t] = "idle"]
    /\ UNCHANGED << auditLogs, logEntry, loaded, returned, returnedAt,
                    committed, nextEntry, notAuditVars >>

AuditNext ==
    \/ \E t \in Threads, user \in AuditUsers : write_audit_log(t, user)
    \/ \E t \in Threads : get_audit_logs(t)
    \/ \E t \in Threads : clear_audit_logs(t)
    \/ \E t \in Threads : Acquire(t)
    \/ \E t \in Threads : AppendLoad(t)
    \/ \E t \in Threads : AppendStore(t)
    \/ \E t \in Threads : Copy(t)
    \/ \E t \in Threads : Clear(t)
    \/ \E t \in Threads : Release(t)

----------------------------------------------------------------------------
(* Task notifications: tests/SCRUM-86_tests.py.  MockEmailService keeps    *)
(* the emails it was asked to send; send_task_notification validates its   *)
(* arguments and sends at most one email through the service it is given.  *)

MaxEmails == 3

UserEmails == {Str("user@example.com"), Str(""), None}

TaskStatuses == {"completed", "failed", "unknown_status"}

ErrorText == Str("API rate limit exceeded")

ActionText == Str("Wait 5 minutes before retrying.")

\* details: None, {} or a dict holding some of the two keys
DetailsKeys == {"error", "suggested_action"}

DetailsDict(keys) ==
    [k \in keys |-> IF k = "error" THEN ErrorText ELSE ActionText]

DetailsArgs == {None} \cup {DetailsDict(keys) : keys \in SUBSET DetailsKeys}

\* email_service: the fixture's MockEmailService, or the default None
EmailServices == {"MockEmailService", "None"}

\* Python truthiness of a str / dict / None argument
Truthy(v) ==
    IF v = None THEN FALSE
    ELSE IF DOMAIN v = {"tag", "s"} THEN v.s # ""
    ELSE DOMAIN v # {}

\* {'to': to, 'subject': subject, 'body': body}
Email(to, subject, body) == [to |-> to, subject |-> subject, body |-> body]

CompletedBody == [text |-> "completed successfully"]

FailedBody(details) ==
    [text |-> "has failed", error |-> details["error"],
     suggested_action |-> details["suggested_action"]]

\* what one call does: the exception it raises ("" for a normal return)
\* and the emails it hands to email_service.send_email
Sent(raised, emails) == [raised |-> raised, emails |-> emails]

\* email_service.send_email(...) : None has no attribute send_email
send_email(email_service, email) ==
    IF email_service = "None" THEN Sent("AttributeError", << >>)
    ELSE Sent("", << email >>)

\* a fault: the failed branch only checks that details is not empty
send_task_notification_unchecked_details(task_status, user_email, details, email_service) ==
    IF ~Truthy(user_email)
    THEN Sent("ValueError: User email must be provided.", << >>)
    ELSE IF task_status = "completed"
    THEN send_email(email_service,
             Email(user_email, "Dormant Account Review Task Completed",
                   CompletedBody))
    ELSE IF task_status = "failed"
    THEN IF ~Truthy(details)
         THEN Sent("ValueError: Failure details must include 'error' and 'suggested_action'.",
                   << >>)
         ELSE send_email(email_service,
                  Email(user_email, "Dormant Account Review Task Failed",
                        [text |-> "has failed"]))
    ELSE Sent("ValueError: Invalid task status.", << >>)

send_task_notification(task_status, user_email, details, email_service) ==
    IF ~Truthy(user_email)
    THEN Sent("ValueError: User email must be provided.", << >>)
    ELSE IF task_status = "completed"
    THEN send_email(email_service,
             Email(user_email, "Dormant Account Review Task Completed",
                   CompletedBody))
    ELSE IF task_status = "failed"
    THEN IF \/ ~Truthy(details)
            \/ "error" \notin DOMAIN details
            \/ "suggested_action" \notin DOMAIN details
         THEN Sent("ValueError: Failure details must include 'error' and 'suggested_action'.",
                   << >>)
         ELSE send_email(email_service,
                  Email(user_email, "Dormant Account Review Task Failed",
                        FailedBody(details)))
    ELSE Sent("ValueError: Invalid task status.", << >>)

NotifyCall(op, task_status, user_email, details, email_service, raised) ==
    [op |-> op, task_status |-> task_status, user_email |-> user_email,
     details |-> details, email_service |-> email_service,
     raised |-> raised]

NoNotifyCall == NotifyCall("none", "", None, None, "None", "")

\* a fresh MockEmailService: sent_emails = []
NotifyInit ==
    /\ sent_emails = << >>
    /\ notifyCall = NoNotifyCall

SendTaskNotification(task_status, user_email, details, email_service) ==
    /\ Len(sent_emails) < MaxEmails
    /\ LET r == send_task_notification(task_status, user_email, details,
                                       email_service)
       IN  /\ sent_emails' = sent_emails \o r.emails
           /\ notifyCall' = NotifyCall("send_task_notification", task_status,
                                user_email, details, email_service, r.raised)
    /\ UNCHANGED notNotifyVars

\* MockEmailService.reset
reset ==
    /\ sent_emails' = << >>
    /\ notifyCall' = NotifyCall("reset", "", None, None, "MockEmailService",
                                "")
    /\ UNCHANGED notNotifyVars

NotifyNext ==
    \/ \E task_status \in TaskStatuses : \E user_email \in UserEmails :
         \E details \in DetailsArgs : \E email_service \in EmailServices :
           SendTaskNotification(task_status, user_email, details,
                                email_service)
    \/ reset

----------------------------------------------------------------------------
(* CloudWatch monitor: generated_code/1745718383689.python.py 93-141.      *)
(* process_metric_value alerts on a value above the threshold and then     *)
(* tries to write an audit entry; the module-level write_audit_log may be  *)
(* patched to raise, or be None.                                           *)

MaxAlerts == 2

Thresholds == {0, 80}

MetricValues == {None, IntV(79), IntV(80), IntV(81)}

AuditModes == {"ok", "raises", "absent"}

\* f"ALERT: {metric_name} metric value {value} exceeded threshold {threshold}."
AlertMessage(metric_name, value, threshold) ==
    [metric_name |-> metric_name, value |-> value, threshold |-> threshold]

\* write_audit_log(user="system", action="cloudwatch_alert", details={...})
MonitorAudit(metric_name, value) ==
    [user |-> "system", action |-> "cloudwatch_alert",
     details |-> [metric |-> metric_name, value |-> value]]

\* what one call does: what it raises, the alerts it sends and the audit
\* entries it writes
Processed(raised, sent, written) ==
    [raised |-> raised, sent |-> sent, written |-> written]

\* the patched write_audit_log: appends the entry, or raises
patched_write_audit_log(mode, entry) ==
    IF mode = "ok" THEN Processed("", << >>, << entry >>)
    ELSE Processed("Exception", << >>, << >>)

\* try: write_audit_log(...)  except Exception: pass
try_write_audit_log(mode, entry) ==
    LET w == patched_write_audit_log(mode, entry)
    IN  IF w.raised = "Exception" THEN Processed("", << >>, w.written) ELSE w

\* send_alert(alert_msg), then the optional audit entry
alert_and_audit(metric_name, threshold, value, mode) ==
    LET w == IF mode # "absent"
             THEN try_write_audit_log(mode, MonitorAudit(metric_name, value))
             ELSE Processed("", << >>, << >>)
    IN  Processed(w.raised, << AlertMessage(metric_name, value, threshold) >>,
                  w.written)

\* a fault: the comparison is >= instead of >
process_metric_value_at_threshold(metric_name, threshold, value, mode) ==
    IF value = None THEN Processed("", << >>, << >>)
    ELSE IF value.n >= threshold
    THEN alert_and_audit(metric_name, threshold, value.n, mode)
    ELSE Processed("", << >>, << >>)

process_metric_value(metric_name, threshold, value, mode) ==
    IF value = None THEN Processed("", << >>, << >>)
    ELSE IF value.n > threshold
    THEN alert_and_audit(metric_name, threshold, value.n, mode)
    ELSE Processed("", << >>, << >>)

MonitorCall(op, threshold, value, raised) ==
    [op |-> op, threshold |-> threshold, value |-> value, raised |-> raised]

MonitorInit ==
    /\ alerts = << >>
    /\ auditWrites = << >>
    /\ auditMode = "ok"
    /\ monitorCall = MonitorCall("none", 0, None, "")

\* CloudWatchMonitor("CPUUtilization", threshold).process_metric_value(value)
ProcessMetricValue(threshold, value) ==
    /\ Len(alerts) < MaxAlerts
    /\ LET r == process_metric_value("CPUUtilization", threshold, value,
                                     auditMode)
       IN  /\ alerts' = alerts \o r.sent
           /\ auditWrites' = auditWrites \o r.written
           /\ monitorCall' = MonitorCall("process_metric_value", threshold,
                                         value, r.raised)
    /\ UNCHANGED auditMode
    /\ UNCHANGED notMonitorVars

\* the tests replace the module-level write_audit_log
PatchWriteAuditLog(mode) ==
    /\ mode # auditMode
    /\ auditMode' = mode
    /\ monitorCall' = MonitorCall("patch", 0, None, "")
    /\ UNCHANGED << alerts, auditWrites >>
    /\ UNCHANGED notMonitorVars

MonitorNext ==
    \/ \E threshold \in Thresholds : \E value \in MetricValues :
         ProcessMetricValue(threshold, value)
    \/ \E mode \in AuditModes : PatchWriteAuditLog(mode)

----------------------------------------------------------------------------
(* Stateless validators and classifiers: process_and_validate_data         *)
(* (tests/SCRUM-59_tests.py), ClientRiskProfiler.categorize                *)
(* (generated_code/1745716229755.python.py, tests/test_SCRUM-97.py),       *)
(* categorize_client (generated_code/1745715240517.python.py) and          *)
(* calculate_risk_score.  Each action calls one of them once.              *)

\* a str as its characters
Text(chars) == [tag |-> "str", chars |-> chars]

\* a float, in thousandths
Float(milli) == [tag |-> "float", milli |-> milli]

\* c * n
Repeat(c, n) == [i \in 1..n |-> c]

Whitespace == {" "}

RECURSIVE lstrip(_)
lstrip(chars) ==
    IF chars = << >> \/ Head(chars) \notin Whitespace THEN chars
    ELSE lstrip(Tail(chars))

RECURSIVE rstrip(_)
rstrip(chars) ==
    IF chars = << >> \/ chars[Len(chars)] \notin Whitespace THEN chars
    ELSE rstrip(SubSeq(chars, 1, Len(chars) - 1))

\* str.strip()
strip(chars) == rstrip(lstrip(chars))

\* round(value, 2) of a non-negative float that is not halfway between two
\* hundredths
round2(milli) == ((milli + 5) \div 10) * 10

\* {"id": ..., "name": ..., "value": ...}
Record(id, name, value) == [id |-> id, name |-> name, value |-> value]

RecordIds == {IntV(0), IntV(1), IntV(2), IntV(99), Str("1")}

RecordNames ==
    {Text(<< >>), Text(Repeat(" ", 3)),
     Text(<< " ", "A", "l", "i", "c", "e", " " >>),
     Text(Repeat("A", 50)), Text(Repeat("A", 51)), IntV(5)}

RecordValues ==
    {Float(0), Float(10456), Float(999999), Float(1000000), Float(1000001),
     Float(-1), IntV(10)}

\* the arguments process_and_validate_data is called with: complete dicts,
\* dicts lacking one field, and a value that is no dict
DataArgs ==
    {Record(id, name, value) :
        id \in RecordIds, name \in RecordNames, value \in RecordValues}
    \cup {[name |-> Text(<< "A" >>), value |-> Float(10000)],
          [id |-> IntV(1), value |-> Float(10000)],
          [id |-> IntV(1), name |-> Text(<< "A" >>)]}
    \cup {Str("not a dict")}

\* isinstance(d, dict)
IsDict(d) == "tag" \notin DOMAIN d

\* a fault: the stripped name is not returned
process_and_validate_data_unstripped(data) ==
    IF ~IsDict(data) THEN FnRaise("ValueError: Input must be a dictionary")
    ELSE IF "id" \notin DOMAIN data THEN FnRaise("ValueError: Missing field: id")
    ELSE IF "name" \notin DOMAIN data
    THEN FnRaise("ValueError: Missing field: name")
    ELSE IF "value" \notin DOMAIN data
    THEN FnRaise("ValueError: Missing field: value")
    ELSE IF ~(data.id.tag = "int" /\ data.id.n > 0)
    THEN FnRaise("ValueError: Invalid 'id': must be positive integer")
    ELSE IF ~(/\ data.name.tag = "str"
              /\ 0 < Len(data.name.chars)
              /\ Len(data.name.chars) <= 50)
    THEN FnRaise("ValueError: Invalid 'name': must be non-empty string of max 50 chars")
    ELSE IF ~(/\ data.value.tag = "float"
              /\ 0 <= data.value.milli
              /\ data.value.milli <= 1000000)
    THEN FnRaise("ValueError: Invalid 'value': must be float between 0.0 and 1000.0")
    ELSE IF data.id.n \notin {1, 2, 3}
    THEN FnRaise("ValueError: Duplicate or invalid 'id'")
    ELSE FnReturn(Record(data.id, data.name,
                         Float(round2(data.value.milli))))

process_and_validate_data(data) ==
    IF ~IsDict(data) THEN FnRaise("ValueError: Input must be a dictionary")
    ELSE IF "id" \notin DOMAIN data THEN FnRaise("ValueError: Missing field: id")
    ELSE IF "name" \notin DOMAIN data
    THEN FnRaise("ValueError: Missing field: name")
    ELSE IF "value" \notin DOMAIN data
    THEN FnRaise("ValueError: Missing field: value")
    ELSE IF ~(data.id.tag = "int" /\ data.id.n > 0)
    THEN FnRaise("ValueError: Invalid 'id': must be positive integer")
    ELSE IF ~(/\ data.name.tag = "str"
              /\ 0 < Len(data.name.chars)
              /\ Len(data.name.chars) <= 50)
    THEN FnRaise("ValueError: Invalid 'name': must be non-empty string of max 50 chars")
    ELSE IF ~(/\ data.value.tag = "float"
              /\ 0 <= data.value.milli
              /\ data.value.milli <= 1000000)
    THEN FnRaise("ValueError: Invalid 'value': must be float between 0.0 and 1000.0")
    ELSE IF data.id.n \notin {1, 2, 3}
    THEN FnRaise("ValueError: Duplicate or invalid 'id'")
    ELSE FnReturn(Record(data.id, Text(strip(data.name.chars)),
                         Float(round2(data.value.milli))))

\* the scores ClientRiskProfiler.categorize is called with
Scores == {IntV(0), IntV(50), IntV(100), IntV(101), Str("high")}

\* ClientRiskProfiler.categorize; avg_score >= 80 is compared as
\* sum(scores) >= 240
categorize(financial_score, operational_score, compliance_score) ==
    LET scores == << financial_score, operational_score, compliance_score >>
    IN  IF \E i \in 1..3 : scores[i].tag # "int"
        THEN FnRaise("ValueError: All scores must be numeric")
        ELSE IF \E i \in 1..3 : ~(0 <= scores[i].n /\ scores[i].n <= 100)
        THEN FnRaise("ValueError: Scores must be between 0 and 100")
        ELSE LET total == scores[1].n + scores[2].n + scores[3].n
             IN  IF total >= 240 THEN FnReturn("Low")
                 ELSE IF total >= 150 THEN FnReturn("Medium")
                 ELSE FnReturn("High")

\* one case of the suite bundled with categorize_client: the three
\* arguments and the outcomes its assertion accepts
Case(debt, revenue, operational_data, violations, accepts) ==
    [financial_data |-> [debt |-> debt, revenue |-> revenue],
     operational_data |-> operational_data,
     compliance_data |-> [violations |-> violations],
     accepts |-> accepts]

Incidents(n) == [incidents |-> n]

\* test_low_risk_client .. test_negative_values
SuiteCases ==
    {Case(IntV(10000), IntV(500000), Incidents(IntV(0)), IntV(0), {"Low"}),
     Case(IntV(300000), IntV(400000), Incidents(IntV(3)), IntV(0), {"Medium"}),
     Case(IntV(2000000), IntV(300000), Incidents(IntV(6)), IntV(2), {"High"}),
     Case(IntV(50000), IntV(250000), EmptyDict, IntV(0), {"Low"}),
     Case(Str("notanumber"), IntV(500000), Incidents(Str("five")),
          Str("none"), {"raises"}),
     Case(IntV(1000000), IntV(500000), Incidents(IntV(5)), IntV(0),
          {"Low", "Medium"}),
     Case(IntV(1000001), IntV(500000), Incidents(IntV(6)), IntV(1),
          {"Medium", "High"}),
     Case(IntV(999999999), IntV(999999999), Incidents(IntV(100)), IntV(50),
          {"High"}),
     Case(IntV(0), IntV(0), Incidents(IntV(0)), IntV(0), {"Low"}),
     Case(IntV(-5000), IntV(-10000), Incidents(IntV(-2)), IntV(-1),
          {"raises"})}

\* the arguments categorize_client is called with: those of the suite,
\* and the medium-risk client with None or {} in place of one dict
ClientArgs ==
    {<< c.financial_data, c.operational_data, c.compliance_data >> :
        c \in SuiteCases}
    \cup {<< None, Incidents(IntV(3)), [violations |-> IntV(0)] >>,
          << [debt |-> IntV(300000), revenue |-> IntV(400000)], None,
             [violations |-> IntV(0)] >>,
          << [debt |-> IntV(300000), revenue |-> IntV(400000)],
             Incidents(IntV(3)), None >>,
          << EmptyDict, Incidents(IntV(6)), EmptyDict >>,
          << [debt |-> IntV(2000000)], EmptyDict, EmptyDict >>}

\* safe_get(d, key): d.get(key, 0)
safe_get(d, key) == IF key \in DOMAIN d THEN d[key] ELSE IntV(0)

\* the validation loop over debt, revenue, incidents, violations: the
\* first message raised, "" when all four pass
FirstInvalid(values) ==
    IF \E i \in 1..Len(values) : values[i].tag # "int" \/ values[i].n < 0
    THEN LET i == CHOOSE i \in 1..Len(values) :
                    /\ values[i].tag # "int" \/ values[i].n < 0
                    /\ \A j \in 1..(i - 1) :
                         values[j].tag = "int" /\ values[j].n >= 0
         IN  IF values[i].tag # "int" THEN "ValueError: must be a number"
             ELSE "ValueError: must be non-negative"
    ELSE ""

\* categorize_client
categorize_client(financial_data, operational_data, compliance_data) ==
    IF ~IsDict(financial_data) \/ ~IsDict(operational_data)
       \/ ~IsDict(compliance_data)
    THEN FnRaise("ValueError: Missing data")
    ELSE LET debt == safe_get(financial_data, "debt")
             revenue == safe_get(financial_data, "revenue")
             incidents == safe_get(operational_data, "incidents")
             violations == safe_get(compliance_data, "violations")
             invalid == FirstInvalid(<< debt, revenue, incidents, violations >>)
         IN  IF invalid # "" THEN FnRaise(invalid)
             ELSE LET risk_score ==
                          (IF debt.n > 1000000 THEN 2 ELSE 0)
                          + (IF incidents.n > 5 THEN 1 ELSE 0)
                          + (IF violations.n > 0 THEN 3 ELSE 0)
                  IN  IF risk_score >= 4 THEN FnReturn("High")
                      ELSE IF risk_score >= 2 THEN FnReturn("Medium")
                      ELSE FnReturn("Low")

\* the records calculate_risk_score is called with
IngestionRecords ==
    {[type |-> "kyc", content |-> b] : b \in {None, CsvHigh}}
    \cup {[type |-> "financials", content |-> b] :
              b \in CsvBodies \cup {None, TxList(1)}}
    \cup {[type |-> "transactions", content |-> TxList(n)] :
              n \in 0..MaxTransactions}
    \cup {[type |-> "transactions", content |-> b] : b \in {None, IntV(5)}}
    \cup {[type |-> t, content |-> None] : t \in {"audio", ""}}

FnCall(fn, args) == [fn |-> fn, args |-> args]

FnInit ==
    /\ fnCall = FnCall("none", << >>)
    /\ fnResult = FnReturn(None)
    /\ acceptedIds = {}

ProcessAndValidateData(data) ==
    /\ fnCall' = FnCall("process_and_validate_data", << data >>)
    /\ fnResult' = process_and_validate_data(data)
    /\ acceptedIds' = IF fnResult'.kind = "return"
                      THEN acceptedIds \cup {data.id.n} ELSE acceptedIds
    /\ UNCHANGED notFnVars

Categorize(financial_score, operational_score, compliance_score) ==
    /\ fnCall' = FnCall("categorize", << financial_score, operational_score,
                                         compliance_score >>)
    /\ fnResult' = categorize(financial_score, operational_score,
                              compliance_score)
    /\ UNCHANGED acceptedIds
    /\ UNCHANGED notFnVars

CategorizeClient(financial_data, operational_data, compliance_data) ==
    /\ fnCall' = FnCall("categorize_client",
                        << financial_data, operational_data,
                           compliance_data >>)
    /\ fnResult' = categorize_client(financial_data, operational_data,
                                     compliance_data)
    /\ UNCHANGED acceptedIds
    /\ UNCHANGED notFnVars

CalculateRiskScore(ingestion) ==
    /\ fnCall' = FnCall("calculate_risk_score", << ingestion >>)
    /\ fnResult' = calculate_risk_score(ingestion)
    /\ UNCHANGED acceptedIds
    /\ UNCHANGED notFnVars

FnNext ==
    \/ \E data \in DataArgs : ProcessAndValidateData(data)
    \/ \E financial_score \in Scores : \E operational_score \in Scores :
         \E compliance_score \in Scores :
           Categorize(financial_score, operational_score, compliance_score)
    \/ \E args \in ClientArgs : CategorizeClient(args[1], args[2], args[3])
    \/ \E ingestion \in IngestionRecords : CalculateRiskScore(ingestion)

----------------------------------------------------------------------------
(* Specifications: one per subsystem                                       *)

\* the gap-filling state while another subsystem runs
FillIdle ==
    /\ retriever = MockRetriever
    /\ generator = MockGenerator
    /\ retrieverUp = TRUE
    /\ requirement = EmptyDict
    /\ origin = [from |-> "caller", field |-> ""]
    /\ lastField = ""
    /\ result = NoCall
    /\ retrieveCalls = 0
    /\ generateCalls = 0

InitFill ==
    /\ FillInit /\ ExtractInit /\ IngestInit
    /\ CollabInit /\ DocInit /\ ScaleInit /\ AuditInit
    /\ NotifyInit /\ MonitorInit /\ FnInit

InitExtract ==
    /\ FillIdle /\ ExtractInit /\ IngestInit
    /\ CollabInit /\ DocInit /\ ScaleInit /\ AuditInit
    /\ NotifyInit /\ MonitorInit /\ FnInit

InitIngest ==
    /\ FillIdle /\ ExtractInit /\ IngestInit
    /\ CollabInit /\ DocInit /\ ScaleInit /\ AuditInit
    /\ NotifyInit /\ MonitorInit /\ FnInit

SpecFill == InitFill /\ [][FillNext]_vars

SpecExtract == InitExtract /\ [][ExtractNext]_vars

SpecIngest == InitIngest /\ [][IngestNext]_vars

\* the pipeline subsystems at rest
PipelineIdle == FillIdle /\ ExtractInit /\ IngestInit

InitCollab ==
    /\ PipelineIdle /\ CollabInit /\ DocInit /\ ScaleInit /\ AuditInit
    /\ NotifyInit /\ MonitorInit /\ FnInit

InitDocs ==
    /\ PipelineIdle /\ CollabInit /\ DocInit /\ ScaleInit /\ AuditInit
    /\ NotifyInit /\ MonitorInit /\ FnInit

InitScale ==
    /\ PipelineIdle /\ CollabInit /\ DocInit /\ ScaleInit /\ AuditInit
    /\ NotifyInit /\ MonitorInit /\ FnInit

InitAudit ==
    /\ PipelineIdle /\ CollabInit /\ DocInit /\ ScaleInit /\ AuditInit
    /\ NotifyInit /\ MonitorInit /\ FnInit

SpecCollab == InitCollab /\ [][CollabNext]_vars

SpecDocs == InitDocs /\ [][DocNext]_vars

SpecScale == InitScale /\ [][ScaleNext]_vars

SpecAudit == InitAudit /\ [][AuditNext]_vars

\* every other subsystem at rest
ServicesIdle == CollabInit /\ DocInit /\ ScaleInit /\ AuditInit

InitNotify ==
    /\ PipelineIdle /\ ServicesIdle
    /\ NotifyInit /\ MonitorInit /\ FnInit

InitMonitor ==
    /\ PipelineIdle /\ ServicesIdle
    /\ NotifyInit /\ MonitorInit /\ FnInit

InitFn ==
    /\ PipelineIdle /\ ServicesIdle
    /\ NotifyInit /\ MonitorInit /\ FnInit

SpecNotify == InitNotify /\ [][NotifyNext]_vars

SpecMonitor == InitMonitor /\ [][MonitorNext]_vars

SpecFn == InitFn /\ [][FnNext]_vars

----------------------------------------------------------------------------
(* Claims about gap filling, checked under SpecFill                        *)

\* a fill_missing call has returned a dict for lastField
Filled == lastField # "" /\ result.kind = "dict"

\* C1: gap filling never overwrites a field that already holds a concrete
\* (non-missing) value: when the field held a value other than None before
\* fill_missing was called for it, the returned requirement holds the same
\* value in that field.
C1_NeverOverwritesConcrete ==
    (Filled /\ DictGet(requirement, lastField) # None)
        => result.req[lastField] = requirement[lastField]

\* the sentinel the claim C2 expects for "attempted, no answer"
Unresolved == Str("unresolved")

\* the last call retrieved without error and the retriever had no candidates
NoCandidates ==
    /\ lastField # ""
    /\ result.kind \in {"none", "dict"}
    /\ retriever[Query(lastField)] = << >>

C3_EmptyNotEligible ==
    (Filled /\ DictGet(requirement, lastField) \in {Str(""), IntV(0)})
        => result.req[lastField] = requirement[lastField]

C10_RetriedThenGapFillUnavailable ==
    result.kind = "raised" =>
        (retrieveCalls >= 2 /\ result.exc = "GapFillUnavailable")

----------------------------------------------------------------------------
(* Claims about extraction, checked under SpecExtract                      *)

FileBased == call.fn \in {"extract_structured_requirements", "generate_document"}

\* the last call was given an input that is there
InputPresent ==
    /\ call.fn # ""
    /\ FileBased => call.file.exists

\* the payload the last call was given
InputPayload == IF FileBased THEN call.file.content ELSE call.data

\* the format of the input is one the called extractor supports
SupportedFormat ==
    \/ /\ call.fn = "extract_structured_requirements"
       /\ call.format \in {"pdf", "word", "email", "graph"}
    \/ /\ call.fn = "extract_requirements"
       /\ call.format \in {"pdf", "docx", "email", "graph"}
    \/ /\ call.fn = "generate_document"
       /\ Lower(call.file.ext) \in {".pdf", ".xlsx", ".xls", ".png", ".jpg", ".jpeg"}

EmptyDocumentError ==
    /\ outcome.kind = "raise"
    /\ outcome.msg \in {"Empty input file", "Input data is empty", "Input file is empty."}

UnsupportedFormatError ==
    /\ outcome.kind = "raise"
    /\ outcome.msg \in {"Unsupported input type", "Unsupported input format",
                        "Unsupported file format."}

\* the call produced nothing: no requirement record, no output document
NothingProduced == outcome.requirements = << >> /\ ~outcome.wrote

C5_UnsupportedAlwaysRejected ==
    (InputPresent /\ ~SupportedFormat)
        => (UnsupportedFormatError /\ NothingProduced)

\* the payload can be parsed as the declared format: it is not the corrupt
\* sample, and graph input is a JSON graph structure
CanParse(data, format) ==
    /\ data # "corrupt"
    /\ format = "graph" => data = JsonGraph

\* C6: a payload declared as a supported format whose body cannot be parsed
\* as that format is rejected with an error; in particular
\* extract_requirements raises for graph input that is not JSON.
C6_UnparsableRejected ==
    (/\ call.fn = "extract_requirements"
     /\ SupportedFormat
     /\ call.data # ""
     /\ ~CanParse(call.data, call.format))
        => outcome.kind = "raise"

\* a non-empty well-formed input of a supported format was given to an
\* extractor that returns requirement records
WellFormedExtraction ==
    /\ call.fn \in {"extract_structured_requirements", "extract_requirements"}
    /\ InputPresent
    /\ SupportedFormat
    /\ InputPayload # ""
    /\ CanParse(InputPayload, call.format)

ConcreteId(record) == "id" \in DOMAIN record /\ record["id"] # None

----------------------------------------------------------------------------
(* Claims about the ingestion API, checked under SpecIngest                *)

\* the last request was a KYC upload that could be read
Ingested == response.route = "/ingest/kyc" /\ upload.readable

\* the upload was handled as PDF: stored as a kyc record, answered 201
HandledAsPdf == response.status = HTTP_201_CREATED

HasPdfSignature == startswith(upload.content, PdfSignature)

\* C7 (as stated): the content signature decides and wins over the file
\* name: an upload declared as PDF that carries a valid PDF signature is
\* handled as PDF whatever its file name, and one without the signature is
\* not.
C7_SignatureWins ==
    (Ingested /\ upload.content_type = "application/pdf")
        => (HandledAsPdf <=> HasPdfSignature)

\* C7 (amended): ingest_kyc handles an upload as PDF exactly when its file
\* name ends in .pdf (in any case), its declared content type is
\* application/pdf and its content starts with the %PDF signature; the
\* record stored is the upload's content.
C7_ExtensionTypeAndSignature ==
    Ingested =>
        /\ HandledAsPdf <=>
              /\ Lower(splitext_ext(upload.filename)) = ".pdf"
              /\ upload.content_type = "application/pdf"
              /\ HasPdfSignature
        /\ HandledAsPdf =>
              /\ response.ingestion_id \in DOMAIN store
              /\ store[response.ingestion_id] =
                     [type |-> "kyc", content |-> upload.content]

\* C7 witness: a payload with a valid signature and declared as PDF was
\* rejected because of its file name
C7_Witness ==
    /\ Ingested
    /\ HasPdfSignature
    /\ upload.content_type = "application/pdf"
    /\ upload.filename = "kyc.txt"
    /\ response.status = HTTP_415_UNSUPPORTED_MEDIA_TYPE

----------------------------------------------------------------------------
(* Claims about collaboration, checked under SpecCollab                    *)

\* C11: every id create_requirement assigns is distinct from every id already
\* stored: a successful create_requirement never stores its requirement under
\* a key the dict already held.
C11_AssignedIdsAreFresh ==
    (collabCall.op = "create_requirement" /\ collabCall.raised = "")
        => collabCall.fresh

\* the names on a requirement's collaborator list
Listed(req_id) ==
    {name \in Usernames : InList(name, requirements[req_id].collaborators)}

\* everyone on a collaborator list created the requirement or was added by
\* somebody who was entitled to at that moment
ListedAreGranted ==
    \A req_id \in DOMAIN requirements : Listed(req_id) \subseteq granted[req_id]

\* a call of access_requirement, edit_requirement or add_collaborator made by
\* `user` on `req_id`
CallBy(req_id, user) ==
    \/ AccessRequirement(req_id, user)
    \/ \E content \in ReqContents : EditRequirement(req_id, user, content)
    \/ \E name \in Usernames : AddCollaborator(req_id, user, name)

\* such a call by a user who neither created the requirement nor was added
\* by a collaborator raises AccessDeniedError and changes no requirement
OutsidersDenied ==
    \A req_id \in DOMAIN requirements :
        \A user \in Usernames \ granted[req_id] :
            CallBy(req_id, user)
                => /\ collabCall'.raised = AccessDeniedError
                   /\ requirements' = requirements

\* C15: a user gets at a requirement only if they created it or were added by
\* a user who was a collaborator at that moment; access_requirement,
\* edit_requirement and add_collaborator by anyone else raise
\* AccessDeniedError and leave content and collaborator list unchanged.
C15_OnlyCollaboratorsGetIn == [][ListedAreGranted' /\ OutsidersDenied]_vars

\* an outsider's edit was refused on a requirement that has an added
\* collaborator
C15_Witness ==
    /\ collabCall.op = "edit_requirement"
    /\ collabCall.raised = AccessDeniedError
    /\ \E req_id \in DOMAIN requirements :
           /\ Listed(req_id) = {"bob_stakeholder", "alice_admin"}
           /\ requirements[req_id].content \in ReqContents

\* C16: no username appears more than once in a requirement's collaborator
\* list, whatever add_collaborator calls were made.
C16_NoDuplicateCollaborators ==
    \A req_id \in DOMAIN requirements :
        \A name \in Usernames :
            Count(name, requirements[req_id].collaborators) <= 1

----------------------------------------------------------------------------
(* Claims about document versioning, checked under SpecDocs                *)

\* a call by `user` that reads document `doc_id`
ReadBy(user, doc_id) ==
    GetDocument(user, doc_id) \/ GetDocumentHistory(user, doc_id)

\* a call by `user` that may write document `doc_id`
WriteBy(user, doc_id) ==
    \/ \E content \in DocContents : EditDocument(user, doc_id, content)
    \/ \E version \in VersionArgs : RevertDocument(user, doc_id, version)

\* C12: a user who is not in a document's collaborator list cannot read the
\* document or its history (the call raises PermissionError) and cannot change
\* its content, version or history through any DocumentService operation.
C12_NonCollaboratorsShutOut ==
    [][\A doc_id \in DOMAIN documents :
           \A user \in DocUsers :
               ~InList(user, collaborators[doc_id])
                   => /\ ReadBy(user, doc_id)
                          => docCall'.raised = PermissionError
                      /\ WriteBy(user, doc_id)
                          => documents' = documents]_vars

\* version = len(history), the history is numbered 1..version, and the
\* content is that of the last history entry
DocumentConsistent(doc) ==
    /\ doc.version = Len(doc.history)
    /\ \A i \in 1..Len(doc.history) : doc.history[i].version = i
    /\ doc.content = doc.history[Len(doc.history)].content

\* `before` is an initial part of `after`
IsPrefix(before, after) ==
    /\ Len(before) <= Len(after)
    /\ \A i \in 1..Len(before) : after[i] = before[i]

\* C13: after any create_document, edit_document and revert_document calls
\* every document has version = len(history), history versions 1..version in
\* order, content equal to the last history entry's, and no call alters or
\* removes an earlier history entry.
C13_VersionHistoryConsistent ==
    [][/\ \A doc_id \in DOMAIN documents' :
              DocumentConsistent(documents'[doc_id])
       /\ \A doc_id \in (DOMAIN documents) \cap (DOMAIN documents') :
              IsPrefix(documents[doc_id].history,
                       documents'[doc_id].history)]_vars

\* a document that was edited and then reverted to its first version
C13_Witness ==
    /\ docCall = [op |-> "revert_document", raised |-> ""]
    /\ \E doc_id \in DOMAIN documents :
           /\ documents[doc_id].version = 3
           /\ documents[doc_id].history[2].content
                  # documents[doc_id].history[1].content
           /\ documents[doc_id].content = documents[doc_id].history[1].content

\* no entry of the history carries this version number
NotInHistory(doc, version) ==
    \A i \in 1..Len(doc.history) : doc.history[i].version # version

\* C14: revert_document by a user whose role is not admin raises
\* PermissionError, revert_document to a version that is not in the history
\* raises ValueError, and both leave content, version and history unchanged.
C14_RevertOnlyByAdmin ==
    [][\A user \in DocUsers, doc_id \in DocIds, version \in VersionArgs :
           RevertDocument(user, doc_id, version)
               => /\ DocUserRoles[user] # "admin"
                      => /\ docCall'.raised = PermissionError
                         /\ documents' = documents
                  /\ ( /\ DocUserRoles[user] = "admin"
                       /\ doc_id \in DOMAIN documents
                       /\ NotInHistory(documents[doc_id], version) )
                      => /\ docCall'.raised = ValueError
                         /\ documents' = documents]_vars

\* an editor's revert of an edited document was refused
C14_Witness ==
    /\ docCall = [op |-> "revert_document", raised |-> PermissionError]
    /\ \E doc_id \in DOMAIN documents : documents[doc_id].version >= 2

----------------------------------------------------------------------------
(* Claims about auto scaling, checked under SpecScale                      *)

\* C17: after any enable_auto_scaling, disable_auto_scaling, simulate_traffic
\* and reset_traffic calls the instance count is within the scaling policy:
\* min <= instances <= max.
C17_InstancesWithinPolicy ==
    scaling_policy["min"] <= instances /\ instances <= scaling_policy["max"]

\* a spike arrived with the count near the maximum and was cut off there
C17_Witness ==
    /\ enabled
    /\ scaleCall.op = "simulate_traffic"
    /\ scaleCall.users > 1000
    /\ instances = scaling_policy["max"]

\* a simulate_traffic call with more than 1000 users while scaling is enabled
Spike(users) == enabled /\ users > 1000 /\ SimulateTraffic(users)

\* C18 as stated: with auto scaling enabled, every simulate_traffic call with
\* more than 1000 users leaves the instance count strictly greater than it
\* was before the call.
C18_SpikeAlwaysAddsInstances ==
    [][\A users \in TrafficLevels :
           Spike(users) => instances' > instances]_vars

\* C18 as the code has it: such a call leaves the count strictly greater
\* while it was below the policy's max, and leaves it at max otherwise.
C18_SpikeAddsInstancesBelowMax ==
    [][\A users \in TrafficLevels :
           Spike(users)
               => IF instances < scaling_policy["max"]
                  THEN instances' > instances
                  ELSE instances' = scaling_policy["max"]]_vars

\* the first spike after construction: 2 instances became 5
C18_Witness ==
    /\ enabled
    /\ scaleCall.op = "simulate_traffic"
    /\ scaleCall.users > 1000
    /\ instances = 5

\* C19: while auto scaling is disabled, simulate_traffic never changes the
\* instance count, whatever the traffic; only last_traffic is updated.
C19_DisabledNeverScales ==
    [][\A users \in TrafficLevels :
           (~enabled /\ SimulateTraffic(users))
               => /\ instances' = instances
                  /\ enabled' = enabled
                  /\ last_traffic' = users]_vars

\* low traffic arrived after scaling was disabled with 8 instances running
C19_Witness ==
    /\ ~enabled
    /\ scaleCall.op = "simulate_traffic"
    /\ last_traffic < 100
    /\ last_traffic = scaleCall.users
    /\ instances = 8

----------------------------------------------------------------------------
(* Claims about the audit log, checked under SpecAudit                     *)

\* every entry appended since the last clear is in the log exactly once, and
\* the log holds nothing else
NoEntryLostOrDuplicated ==
    /\ \A entry \in committed : Count(entry, auditLogs) = 1
    /\ \A i \in 1..Len(auditLogs) : auditLogs[i] \in committed

\* a list get_audit_logs returned still reads as it did when it was returned
SnapshotsKeep ==
    \A t \in Threads :
        returned[t] # NoList => Contents(returned[t]) = returnedAt[t]

\* C20: under any interleaving of concurrent write_audit_log, get_audit_logs
\* and clear_audit_logs calls no entry is lost or duplicated (every write not
\* followed by a clear appears exactly once), and a list returned by
\* get_audit_logs is a snapshot that later writes and clears do not change.
C20_AuditLogThreadSafe == NoEntryLostOrDuplicated /\ SnapshotsKeep

\* one thread holds a snapshot with one entry, the log has since got a second
\* entry from the other thread, which is still inside its call
C20_Witness ==
    \E t \in Threads : \E other \in Threads \ {t} :
        /\ returned[t] # NoList
        /\ Len(Contents(returned[t])) = 1
        /\ Len(auditLogs) = 2
        /\ pc[t] = "get_lock"
        /\ pc[other] = "unlock"
        /\ lockHolder = other

----------------------------------------------------------------------------
(* Claims about task notifications, checked under SpecNotify               *)

\* the three messages send_task_notification raises ValueError with
NotificationValueErrors ==
    {"ValueError: User email must be provided.",
     "ValueError: Failure details must include 'error' and 'suggested_action'.",
     "ValueError: Invalid task status."}

\* the call has an empty user email, an invalid status, or failure details
\* lacking 'error' or 'suggested_action'
InvalidNotification(c) ==
    \/ c.user_email \in {None, Str("")}
    \/ c.task_status \notin {"completed", "failed"}
    \/ /\ c.task_status = "failed"
       /\ ~(DetailsKeys \subseteq DOMAIN c.details)

SubjectFor(task_status) ==
    IF task_status = "completed" THEN "Dormant Account Review Task Completed"
    ELSE "Dormant Account Review Task Failed"

\* C21: a send_task_notification call that returns normally appends exactly
\* one email, addressed to the user and titled after the status, to the end
\* of the service's sent-email list; a call that raises leaves the list as
\* it was; and it raises ValueError exactly when the user email is empty,
\* the status is invalid or the failure details lack a key.
C21_OneEmailPerSuccessfulCall ==
    [][LET c == notifyCall'
       IN  c.op = "send_task_notification" =>
             /\ c.raised = "" =>
                  /\ ~InvalidNotification(c)
                  /\ Len(sent_emails') = Len(sent_emails) + 1
                  /\ SubSeq(sent_emails', 1, Len(sent_emails)) = sent_emails
                  /\ sent_emails'[Len(sent_emails')].to = c.user_email
                  /\ sent_emails'[Len(sent_emails')].subject
                       = SubjectFor(c.task_status)
             /\ c.raised # "" => sent_emails' = sent_emails
             /\ InvalidNotification(c) <=> c.raised \in NotificationValueErrors
      ]_vars

\* a completed and a failed notification were sent, in that order, and a
\* later call raised ValueError
C21_Witness ==
    /\ Len(sent_emails) = 2
    /\ sent_emails[1].subject = "Dormant Account Review Task Completed"
    /\ sent_emails[2].subject = "Dormant Account Review Task Failed"
    /\ notifyCall.raised \in NotificationValueErrors

----------------------------------------------------------------------------
(* Claims about the score endpoint, checked under SpecIngest               *)

\* the step is a GET /api/risk/score/{id} request
ScoreRequest == response'.route = "/risk/score"

\* C22: the ingestion store grows by exactly the id an upload is answered
\* 201 with, a rejected upload (415 or 400) and a score request leave it as
\* it is, no request ever removes or rewrites a record, and a score request
\* is answered 404 exactly when its id is not in the store, i.e. was never
\* returned by a successful ingest call.
C22_NotFoundExactlyForUnknownIds ==
    [][/\ \A id \in DOMAIN store : id \in DOMAIN store' /\ store'[id] = store[id]
       /\ ~ScoreRequest =>
            /\ response'.status \in {HTTP_201_CREATED, HTTP_400_BAD_REQUEST,
                                     HTTP_415_UNSUPPORTED_MEDIA_TYPE}
            /\ response'.status = HTTP_201_CREATED =>
                 /\ response'.ingestion_id \notin DOMAIN store
                 /\ DOMAIN store' = DOMAIN store \cup {response'.ingestion_id}
            /\ response'.status # HTTP_201_CREATED => store' = store
       /\ ScoreRequest =>
            /\ store' = store
            /\ response'.status = HTTP_404_NOT_FOUND
                 <=> response'.ingestion_id \notin DOMAIN store
      ]_vars

\* an id returned with 201 two requests ago has just been scored
C22_Witness ==
    /\ upload = NoUpload
    /\ response.status = HTTP_200_OK
    /\ response.ingestion_id \in DOMAIN store
    /\ Cardinality(DOMAIN store) = 2
    /\ \E id \in DOMAIN store : store[id].content = TxList(0)

----------------------------------------------------------------------------
(* Claims about the stateless functions, checked under SpecFn              *)

\* the last call was calculate_risk_score
Scored == fnCall.fn = "calculate_risk_score"

\* the call returned an integer between 1 and 100
ScoreInRange == fnResult.kind = "return" /\ fnResult.value \in 1..100

----------------------------------------------------------------------------
(* Claims about the CloudWatch monitor, checked under SpecMonitor          *)

\* the value of the call is present and strictly greater than the threshold
AboveThreshold(c) == c.value # None /\ c.value.n > c.threshold

\* C24: process_metric_value sends exactly one alert when the value is
\* present and strictly greater than the threshold, and otherwise sends no
\* alert and writes no audit entry; it returns normally in every case, also
\* when the audit-log write that follows an alert raises, and writes at
\* most the one audit entry of the alert.
C24_AlertExactlyAboveThreshold ==
    [][LET c == monitorCall'
       IN  c.op = "process_metric_value" =>
             /\ c.raised = ""
             /\ IF AboveThreshold(c)
                THEN /\ alerts' = Append(alerts,
                            AlertMessage("CPUUtilization", c.value.n,
                                         c.threshold))
                     /\ auditMode = "ok" =>
                          auditWrites' = Append(auditWrites,
                              MonitorAudit("CPUUtilization", c.value.n))
                     /\ auditMode # "ok" => auditWrites' = auditWrites
                ELSE /\ alerts' = alerts
                     /\ auditWrites' = auditWrites
      ]_vars

\* an alert went out while write_audit_log raised: no entry was written and
\* the call returned normally
C24_Witness ==
    /\ monitorCall.op = "process_metric_value"
    /\ AboveThreshold(monitorCall)
    /\ auditMode = "raises"
    /\ monitorCall.raised = ""
    /\ Len(alerts) = 1
    /\ auditWrites = << >>

\* the last call was categorize_client
Classified == fnCall.fn = "categorize_client"

\* what the suite's assertions see of the result
Outcome == IF fnResult.kind = "raise" THEN "raises" ELSE fnResult.value

\* C25: categorize_client passes every test case of the suite bundled with
\* it: called with the arguments of a case it gives an outcome the case's
\* assertion accepts; in particular debt 300000, 3 incidents and 0
\* violations are classified "Medium".
C25_PassesBundledSuite ==
    Classified =>
        \A c \in SuiteCases :
            fnCall.args = << c.financial_data, c.operational_data,
                             c.compliance_data >>
                => Outcome \in c.accepts

\* C26: ClientRiskProfiler.categorize returns 'Medium' for mixed extreme
\* scores: categorize(100, 0, 100) and categorize(0, 100, 0) both yield
\* 'Medium'.
C26_MixedExtremesAreMedium ==
    (/\ fnCall.fn = "categorize"
     /\ fnCall.args \in {<< IntV(100), IntV(0), IntV(100) >>,
                         << IntV(0), IntV(100), IntV(0) >>})
        => fnResult = FnReturn("Medium")

\* the last call was process_and_validate_data
Validated == fnCall.fn = "process_and_validate_data"

\* the constraints documented for a record: id a positive integer, name a
\* non-empty string of at most 50 characters, value a float between 0.0
\* and 1000.0
SatisfiesConstraints(rec) ==
    /\ rec.id.tag = "int" /\ rec.id.n > 0
    /\ rec.name.tag = "str"
    /\ Len(rec.name.chars) > 0 /\ Len(rec.name.chars) <= 50
    /\ rec.value.tag = "float"
    /\ rec.value.milli >= 0 /\ rec.value.milli <= 1000000

\* C27: once process_and_validate_data has accepted a record with a given
\* id, a later call with a record carrying the same id is rejected: it
\* raises, and when the record is otherwise valid the error is ValueError
\* "Duplicate or invalid 'id'".
C27_AcceptedIdsAreUnique ==
    [][(/\ fnCall'.fn = "process_and_validate_data"
        /\ IsDict(fnCall'.args[1])
        /\ DOMAIN fnCall'.args[1] = {"id", "name", "value"}
        /\ fnCall'.args[1].id.tag = "int"
        /\ fnCall'.args[1].id.n \in acceptedIds)
          => /\ fnResult'.kind = "raise"
             /\ SatisfiesConstraints(fnCall'.args[1]) =>
                  fnResult' = FnRaise("ValueError: Duplicate or invalid 'id'")
      ]_vars

\* C30: every record process_and_validate_data returns satisfies the
\* documented constraints, so validating it again succeeds and returns the
\* same record.
C30_ReturnedRecordsAreValid ==
    (Validated /\ fnResult.kind = "return") =>
        /\ SatisfiesConstraints(fnResult.value)
        /\ process_and_validate_data(fnResult.value) = fnResult

----------------------------------------------------------------------------
(* Claims about check order and frame effects                              *)

\* C28: format rejection precedes extraction in every extractor: an input
\* of unsupported format is reported with the unsupported-format error even
\* when its payload is empty, and the empty-document error is reported only
\* for inputs of a supported format.  Checked under SpecExtract.
C28_FormatCheckedBeforeEmptiness ==
    InputPresent =>
        /\ (~SupportedFormat /\ InputPayload = "") => UnsupportedFormatError
        /\ EmptyDocumentError => SupportedFormat

\* the fields of the argument other than the requested one
OtherFields == DOMAIN requirement \ {lastField}

\* C29: a fill_missing call leaves the requirement passed to it as it was,
\* and a requirement it returns has exactly the fields of the argument plus
\* the requested one, every field other than the requested one with the
\* value it had in the argument.  Checked under SpecFill.
C29_ArgumentUntouchedOthersKept ==
    [][result'.kind # "nocall" =>
         /\ requirement' = requirement
         /\ result'.kind = "dict" =>
              /\ DOMAIN result'.req = DOMAIN requirement \cup {lastField'}
              /\ \A k \in DOMAIN requirement \ {lastField'} :
                   result'.req[k] = requirement[k]
      ]_vars

\* a call filled the requested field of a requirement that holds a value
\* under another field: the argument still lacks the value, the result
\* carries the other field unchanged
C29_Witness ==
    /\ result.kind = "dict"
    /\ DictGet(requirement, lastField) = None
    /\ result.req[lastField] # None
    /\ \E k \in OtherFields :
         requirement[k] # None /\ result.req[k] = requirement[k]

====
